---- MODULE Spec2Model ----
(***************************************************************************)
(* Entity mirrors of the habit tracker: the useHabits and useCompletions   *)
(* hooks, the remote store they call and the push subscription they        *)
(* listen to.                                                              *)
(*                                                                         *)
(* Every asynchronous hook function is split at its awaits: the part of    *)
(* the function up to the remote call is one action and the continuation   *)
(* after the await is another.  The remote store handles a call when it is *)
(* issued (it commits or rejects); the response and the push event of a    *)
(* commit then travel independently and arrive in any order.  React state  *)
(* is read at call time (the closure of the latest render) and written     *)
(* through the updater functions of the source.                            *)
(***************************************************************************)
EXTENDS Integers, Sequences, FiniteSets, TLC

\* ------------------------------------------------------------------ bounds
\* mutations of the habits collection issued in one run, by the hooks of
\* this client (createHabit, updateHabit, ...) or by another client or tab
MaxHabitOps == 2
\* mutations of the habit_completions collection issued in one run, by
\* toggleCompletion of this client or by another client or tab
MaxCompletionOps == 3
\* renders that pass the hooks another userId (sign-out, another user)
MaxUserChanges == 1
\* mutations of both collections issued in one run in which userId changes
MaxSessionOps == 1
\* mutations of one collection issued in one run in which every kind of push
\* event reaches the subscription callbacks
MaxMirrorOps == 2

\* mutations (habits and completions together) in a run of SpecCascade
MaxCascadeOps == 3

\* records in a list given to the functions of streaks.ts
MaxStreakLen == 3

\* days before today, and after today, on which a completion can lie
MaxDaysBack == 6
MaxDaysAhead == 1

\* largest window (days) given to getWeeklyCompletionRate
MaxWindow == 7

\* UTC days before and after the epoch day on which a time value given to
\* the functions of date.ts (and the clock they read) can lie
MaxDateDays == 2

\* largest n given to getLastNDays
MaxLastDays == 8

\* completions of the user that the remote store can hold when
\* getAllCompletions is called, and the records of one page in the model
\* (the `limit` of the list calls, 200 in the source)
MaxStoreRecords == 5
PageLimit == 2

\* -------------------------------------------------------- program constants
\* msPerDay = 24 * 60 * 60 * 1000
MsPerDay == 86400000

\* ------------------------------------------------------------- value sets
NoUser == "none"
Users == {"u1", "u2"}
Hooks == {"useHabits", "useCompletions"}
Names == {"a", "b"}
\* the habits whose HabitItem component is followed
HabitItemIds == {1, 2}

VARIABLES
  userId,              \* useHabits(userId) / useCompletions(userId)
  userChanges,         \* renders so far that passed the hooks another userId
  mounted,             \* the hooks of this module that the component renders
  stats,               \* what the statistics components last computed or fetched
  habitItems,          \* per HabitItem: useState isToggling, and where handleToggle is
  habits,              \* useState<Habit[]>
  habitsLoading,       \* useState(true)   (loading of useHabits)
  habitsError,         \* useState<string | null>   (error of useHabits)
  recentlyCreatedIds,  \* useRef<Set<string>>
  habitCalls,          \* hook calls of useHabits suspended at their await
  habitOps,            \* mutations of the habits collection issued so far
  habitSettled,        \* how the last settled useHabits promise ended
  habitEvents,         \* push events of the habits subscription, not yet delivered
  storeHabits,         \* the remote collection 'habits'
  storeHabitNextId,    \* next id the remote store assigns in 'habits'
  completions,         \* useState<HabitCompletion[]>
  completionsLoading,  \* useState(true)   (loading of useCompletions)
  completionsError,    \* useState<string | null>   (error of useCompletions)
  completionCalls,     \* toggleCompletion / fetchCompletions calls at an await
  completionOps,       \* mutations of habit_completions issued so far
  completionLog,       \* per mutation, in issue order: who, what, how it ended
  completionEvents,    \* push events of habit_completions, not yet delivered
  storeCompletions,    \* the remote collection 'habit_completions'
  storeCompletionNextId \* next id the remote store assigns in it

habitVars == <<userId, userChanges, mounted, stats, habitItems, habits, habitsLoading, habitsError, recentlyCreatedIds,
               habitCalls, habitOps, habitSettled, habitEvents,
               storeHabits, storeHabitNextId>>

completionVars == <<completions, completionsLoading, completionsError,
                    completionCalls, completionOps, completionLog, completionEvents,
                    storeCompletions, storeCompletionNextId>>

vars == <<habitVars, completionVars>>

\* ---------------------------------------------------------------- helpers
\* stats of HabitInsights before a habit is selected: `return null`
NoStats == [days |-> 0]

\* a HabitItem as mounted: useState(false) for isToggling, handleToggle not
\* called yet; `awaiting` is the toggleCompletion call handleToggle awaits
\* (0 for none), `lastCall` how its last call began
ItemIdle == [isToggling |-> FALSE, awaiting |-> 0, lastCall |-> "none"]
ItemsIdle == [h \in HabitItemIds |-> ItemIdle]

NoHabit == [id |-> 0, name |-> "", archived |-> FALSE, user_id |-> ""]

Ids(list) == {list[i].id : i \in DOMAIN list}

\* Array.prototype.map with a function of the element
MapSeq(list, F(_)) == [i \in DOMAIN list |-> F(list[i])]

\* order: 'desc' on created_at; the store assigns ids in creation order
RECURSIVE SortDesc(_)
SortDesc(S) ==
  IF S = {} THEN <<>>
  ELSE LET top == CHOOSE r \in S : \A q \in S : q.id <= r.id
       IN <<top>> \o SortDesc(S \ {top})

\* ------------------------------------------------ state updaters, useHabits
\* created: setHabits(prev => prev.some(h => h.id === record.id) ? prev : [record, ...prev])
HabitsOnCreated(prev, record) ==
  IF \E i \in DOMAIN prev : prev[i].id = record.id THEN prev ELSE <<record>> \o prev

\* an updated handler that merges: it keeps the entry's own archived flag
HabitsOnUpdatedMerged(prev, record) ==
  [i \in DOMAIN prev |->
     IF prev[i].id = record.id
     THEN [record EXCEPT !.archived = prev[i].archived] ELSE prev[i]]

\* an updated handler that inserts a record whose id it does not find
HabitsOnUpdatedUpsert(prev, record) ==
  IF \E i \in DOMAIN prev : prev[i].id = record.id
  THEN [i \in DOMAIN prev |-> IF prev[i].id = record.id THEN record ELSE prev[i]]
  ELSE <<record>> \o prev

\* updated: setHabits(prev => prev.map(h => h.id === record.id ? record : h))
HabitsOnUpdated(prev, record) ==
  LET F(h) == IF h.id = record.id THEN record ELSE h IN MapSeq(prev, F)

\* deleted / optimistic delete: prev.filter(h => h.id !== id)
HabitsWithout(prev, id) ==
  LET Keep(h) == h.id # id IN SelectSeq(prev, Keep)

\* createHabit: setHabits(prev => [newHabit, ...prev])
HabitsPrepend(prev, newHabit) == <<newHabit>> \o prev

\* updateHabit: list.map(h => h.id === id ? { ...h, ...updates } : h)
HabitsPatchName(list, id, name) ==
  LET F(h) == IF h.id = id THEN [h EXCEPT !.name = name] ELSE h IN MapSeq(list, F)

\* a revert that leaves the optimistic patch in place
HabitsRevertDropped(list, id, prev) == list

\* updateHabit, catch: list.map(h => h.id === id ? prev : h)
HabitsRevert(list, id, prev) ==
  LET F(h) == IF h.id = id THEN prev ELSE h IN MapSeq(list, F)

\* an archive that writes a bare entry: the other fields of the habit are lost
HabitsSetArchivedBare(list, id, flag) ==
  LET F(h) == IF h.id = id THEN [h EXCEPT !.archived = flag, !.name = ""] ELSE h
  IN MapSeq(list, F)

\* archiveHabit / unarchiveHabit: list.map(h => h.id === id ? { ...h, archived } : h)
HabitsSetArchived(list, id, flag) ==
  LET F(h) == IF h.id = id THEN [h EXCEPT !.archived = flag] ELSE h IN MapSeq(list, F)

\* a rollback that restores nothing
HabitsRestoreDropped(list, snapshot) == list

\* deleteHabit, catch: setHabits(snapshot)
HabitsRestore(list, snapshot) == snapshot

\* a marker that is left in the set
RecentlyCreatedKept(ids, id) == ids

\* recentlyCreatedIds.current.delete(record.id)
RecentlyCreatedDelete(ids, id) == ids \ {id}

\* a lookup that takes the first entry of the list whatever its id
HabitsFindFirst(list, id) == IF list = <<>> THEN NoHabit ELSE list[1]

\* habits.find(h => h.id === id): the first match, or NoHabit for undefined
HabitsFind(list, id) ==
  IF \E i \in DOMAIN list : list[i].id = id
  THEN list[CHOOSE i \in DOMAIN list :
              list[i].id = id /\ \A j \in DOMAIN list : list[j].id = id => i <= j]
  ELSE NoHabit

\* ------------------------------------------------------------ remote store
\* subscribe('habits', {filter: {user_id: userId}}, ...): the store pushes an
\* event to the subscription of the signed-in user when the record matches
HabitEmit(action, record) ==
  IF userId # NoUser /\ record.user_id = userId
  THEN Append(habitEvents, [action |-> action, record |-> record])
  ELSE habitEvents

StoreHabitHas(id) == \E r \in storeHabits : r.id = id
StoreHabitGet(id) == CHOOSE r \in storeHabits : r.id = id


HabitCall(n, op, user, id, name, prev, snapshot) ==
  [n |-> n, op |-> op, phase |-> "sent", user |-> user, id |-> id, name |-> name,
   prev |-> prev, snapshot |-> snapshot, data |-> <<>>, rec |-> NoHabit]

Advance(c, phase, data, rec) == [c EXCEPT !.phase = phase, !.data = data, !.rec = rec]

\* list('habits', {filter: {user_id}, sort: 'created_at', order: 'desc'})
StoreHabitList(store, user) == SortDesc({r \in store : r.user_id = user})

\* the record of id after update('habits', id, patch) of call kind op
StorePatched(old, op, name) ==
  CASE op = "update"    -> [old EXCEPT !.name = name]
    [] op = "archive"   -> [old EXCEPT !.archived = TRUE]
    [] op = "unarchive" -> [old EXCEPT !.archived = FALSE]

\* The remote store handles call c: it sets the store, the pushed events and
\* the call now awaiting its response.  Any call can be rejected (transport,
\* unknown id), which leaves the store as it was; a delete of an id the
\* store does not hold is answered either way (idempotent delete, or not found).
StoreHabitHandle(c) ==
  \/ /\ habitCalls' = habitCalls \cup {Advance(c, "err", <<>>, NoHabit)}
     /\ UNCHANGED <<storeHabits, storeHabitNextId, habitEvents>>
  \/ /\ c.op = "list"
     /\ habitCalls' = habitCalls \cup
          {Advance(c, "ok", StoreHabitList(storeHabits, c.user), NoHabit)}
     /\ UNCHANGED <<storeHabits, storeHabitNextId, habitEvents>>
  \/ /\ c.op = "create"
     /\ LET rec == [id |-> storeHabitNextId, name |-> c.name, archived |-> FALSE,
                    user_id |-> c.user]
        IN /\ storeHabits' = storeHabits \cup {rec}
           /\ storeHabitNextId' = storeHabitNextId + 1
           /\ habitEvents' = HabitEmit("created", rec)
           /\ habitCalls' = habitCalls \cup {Advance(c, "ok", <<>>, rec)}
  \/ /\ c.op \in {"update", "archive", "unarchive"}
     /\ StoreHabitHas(c.id)
     /\ LET old == StoreHabitGet(c.id)
            rec == StorePatched(old, c.op, c.name)
        IN /\ storeHabits' = (storeHabits \ {old}) \cup {rec}
           /\ habitEvents' = HabitEmit("updated", rec)
           /\ habitCalls' = habitCalls \cup {Advance(c, "ok", <<>>, rec)}
     /\ UNCHANGED storeHabitNextId
  \/ /\ c.op = "delete"
     /\ StoreHabitHas(c.id)
     /\ LET old == StoreHabitGet(c.id)
        IN /\ storeHabits' = storeHabits \ {old}
           /\ habitEvents' = HabitEmit("deleted", old)
           /\ habitCalls' = habitCalls \cup {Advance(c, "ok", <<>>, NoHabit)}
     /\ UNCHANGED storeHabitNextId
  \/ /\ c.op = "delete"
     /\ ~StoreHabitHas(c.id)
     /\ habitCalls' = habitCalls \cup {Advance(c, "ok", <<>>, NoHabit)}
     /\ UNCHANGED <<storeHabits, storeHabitNextId, habitEvents>>

NoneSettled == [op |-> "none", outcome |-> "none"]
\* a promise that resolves whatever happened
SettledAsResolved(c, outcome) == [op |-> c.op, outcome |-> "resolved"]

\* how the promise of call c ended
Settled(c, outcome) == [op |-> c.op, outcome |-> outcome]

\* ------------------------------------------------------------------- Init
\* AppContent renders HabitTrackerContent, and with it the hooks, only for a
\* signed-in user (App.tsx 506-527): the hook starts with userId set, an empty
\* list, loading true, the mount effects run (fetchHabits has issued its list
\* call, the subscription is open).  The remote store holds one habit of that
\* user from an earlier session.
SeedHabits == {[id |-> 1, name |-> "a", archived |-> FALSE, user_id |-> "u1"]}

HabitInit ==
  /\ userId = "u1"
  /\ userChanges = 0
  /\ stats = NoStats
  /\ habitItems = ItemsIdle
  /\ habits = <<>>
  /\ habitsLoading = TRUE
  /\ habitsError = "null"
  /\ recentlyCreatedIds = {}
  /\ \E phase \in {"ok", "err"} :
       habitCalls = {Advance(HabitCall(0, "list", "u1", 0, "", NoHabit, <<>>), phase,
                             IF phase = "ok" THEN StoreHabitList(SeedHabits, "u1") ELSE <<>>,
                             NoHabit)}
  /\ habitOps = 0
  /\ habitSettled = NoneSettled
  /\ habitEvents = <<>>
  /\ storeHabits = SeedHabits
  /\ storeHabitNextId = Cardinality(SeedHabits) + 1

\* -------------------------------------------------------- hooks: useHabits
\* ids a caller can pass: those the store has assigned so far
HabitIdInputs == 1..(storeHabitNextId - 1)

HabitIssue(op, id, name, prev, snapshot) ==
  /\ habitOps < MaxHabitOps
  /\ habitOps' = habitOps + 1
  /\ StoreHabitHandle(HabitCall(habitOps + 1, op, userId, id, name, prev, snapshot))

\* createHabit up to `await app.data.create(...)`
CreateHabit ==
  /\ userId # NoUser
  /\ \E name \in Names : HabitIssue("create", 0, name, NoHabit, <<>>)
  /\ UNCHANGED <<completionVars, userId, userChanges, mounted, stats, habitItems, habits, habitsLoading, habitsError, recentlyCreatedIds,
                 habitSettled>>

\* createHabit after the await: the create resolved
CreateHabitOk ==
  \E c \in habitCalls :
    /\ c.op = "create" /\ c.phase = "ok"
    /\ recentlyCreatedIds' = recentlyCreatedIds \cup {c.rec.id}
    /\ habits' = HabitsPrepend(habits, c.rec)
    /\ habitCalls' = habitCalls \ {c}
    /\ habitSettled' = Settled(c, "resolved")
    /\ UNCHANGED <<completionVars, userId, userChanges, mounted, stats, habitItems, habitsLoading, habitsError, habitOps, habitEvents,
                   storeHabits, storeHabitNextId>>

\* createHabit after the await: the create rejected, the error propagates
CreateHabitErr ==
  \E c \in habitCalls :
    /\ c.op = "create" /\ c.phase = "err"
    /\ habitCalls' = habitCalls \ {c}
    /\ habitSettled' = Settled(c, "rejected")
    /\ UNCHANGED <<completionVars, userId, userChanges, mounted, stats, habitItems, habits, habitsLoading, habitsError, recentlyCreatedIds,
                   habitOps, habitEvents, storeHabits, storeHabitNextId>>

\* updateHabit up to `await app.data.update(...)`; returns at once when the
\* id is not in the rendered list
UpdateHabit ==
  /\ userId # NoUser
  /\ \E id \in HabitIdInputs, name \in Names :
       LET prev == HabitsFind(habits, id) IN
       IF prev = NoHabit
       THEN /\ habitSettled' = [op |-> "update", outcome |-> "resolved"]
            /\ UNCHANGED <<habits, habitCalls, habitOps, habitEvents, storeHabits,
                           storeHabitNextId>>
       ELSE /\ habits' = HabitsPatchName(habits, id, name)
            /\ HabitIssue("update", id, name, prev, <<>>)
            /\ UNCHANGED habitSettled
  /\ UNCHANGED <<completionVars, userId, userChanges, mounted, stats, habitItems, habitsLoading, habitsError, recentlyCreatedIds>>

\* updateHabit, archiveHabit, unarchiveHabit, deleteHabit after the await:
\* the remote call resolved
HabitMutationOk ==
  \E c \in habitCalls :
    /\ c.op \in {"update", "archive", "unarchive", "delete"} /\ c.phase = "ok"
    /\ habitCalls' = habitCalls \ {c}
    /\ habitSettled' = Settled(c, "resolved")
    /\ UNCHANGED <<completionVars, userId, userChanges, mounted, stats, habitItems, habits, habitsLoading, habitsError, recentlyCreatedIds,
                   habitOps, habitEvents, storeHabits, storeHabitNextId>>

\* updateHabit, catch
UpdateHabitErr ==
  \E c \in habitCalls :
    /\ c.op = "update" /\ c.phase = "err"
    /\ habits' = HabitsRevert(habits, c.id, c.prev)
    /\ habitCalls' = habitCalls \ {c}
    /\ habitSettled' = Settled(c, "rejected")
    /\ UNCHANGED <<completionVars, userId, userChanges, mounted, stats, habitItems, habitsLoading, habitsError, recentlyCreatedIds,
                   habitOps, habitEvents, storeHabits, storeHabitNextId>>

\* archiveHabit (flag TRUE) and unarchiveHabit (flag FALSE) up to the await
ArchiveHabit ==
  /\ userId # NoUser
  /\ \E id \in HabitIdInputs, op \in {"archive", "unarchive"} :
       /\ habits' = HabitsSetArchived(habits, id, op = "archive")
       /\ HabitIssue(op, id, "", NoHabit, <<>>)
  /\ UNCHANGED <<completionVars, userId, userChanges, mounted, stats, habitItems, habitsLoading, habitsError, recentlyCreatedIds,
                 habitSettled>>

\* archiveHabit, catch (archived: false); unarchiveHabit, catch (archived: true)
ArchiveHabitErr ==
  \E c \in habitCalls :
    /\ c.op \in {"archive", "unarchive"} /\ c.phase = "err"
    /\ habits' = HabitsSetArchived(habits, c.id, c.op = "unarchive")
    /\ habitCalls' = habitCalls \ {c}
    /\ habitSettled' = Settled(c, "rejected")
    /\ UNCHANGED <<completionVars, userId, userChanges, mounted, stats, habitItems, habitsLoading, habitsError, recentlyCreatedIds,
                   habitOps, habitEvents, storeHabits, storeHabitNextId>>

\* deleteHabit up to `await app.data.delete(...)`
DeleteHabit ==
  /\ userId # NoUser
  /\ \E id \in HabitIdInputs :
       /\ habits' = HabitsWithout(habits, id)
       /\ HabitIssue("delete", id, "", NoHabit, habits)
  /\ UNCHANGED <<completionVars, userId, userChanges, mounted, stats, habitItems, habitsLoading, habitsError, recentlyCreatedIds,
                 habitSettled>>

\* deleteHabit, catch
DeleteHabitErr ==
  \E c \in habitCalls :
    /\ c.op = "delete" /\ c.phase = "err"
    /\ habits' = HabitsRestore(habits, c.snapshot)
    /\ habitCalls' = habitCalls \ {c}
    /\ habitSettled' = Settled(c, "rejected")
    /\ UNCHANGED <<completionVars, userId, userChanges, mounted, stats, habitItems, habitsLoading, habitsError, recentlyCreatedIds,
                   habitOps, habitEvents, storeHabits, storeHabitNextId>>

\* fetchHabits after `await app.data.list(...)`: setHabits(result.data), finally
FetchHabitsOk ==
  \E c \in habitCalls :
    /\ c.op = "list" /\ c.phase = "ok"
    /\ habits' = c.data
    /\ habitsLoading' = FALSE
    /\ habitCalls' = habitCalls \ {c}
    /\ habitSettled' = Settled(c, "resolved")
    /\ UNCHANGED <<completionVars, userId, userChanges, mounted, stats, habitItems, habitsError, recentlyCreatedIds, habitOps, habitEvents,
                   storeHabits, storeHabitNextId>>

\* fetchHabits, catch and finally: the error is kept as a string, not rethrown
FetchHabitsErr ==
  \E c \in habitCalls :
    /\ c.op = "list" /\ c.phase = "err"
    /\ habitsError' = "Failed to load habits"
    /\ habitsLoading' = FALSE
    /\ habitCalls' = habitCalls \ {c}
    /\ habitSettled' = Settled(c, "resolved")
    /\ UNCHANGED <<completionVars, userId, userChanges, mounted, stats, habitItems, habits, recentlyCreatedIds, habitOps, habitEvents,
                   storeHabits, storeHabitNextId>>

\* the subscription callback of useHabits applied to one event: the list and
\* the marker set it leaves
HabitOnEventResult(list, ids, event) ==
  IF event.action = "created" /\ event.record.id \in ids
  THEN [habits |-> list,
        recentlyCreatedIds |-> RecentlyCreatedDelete(ids, event.record.id)]
  ELSE [habits |-> CASE event.action = "created" -> HabitsOnCreated(list, event.record)
                     [] event.action = "updated" -> HabitsOnUpdated(list, event.record)
                     [] event.action = "deleted" -> HabitsWithout(list, event.record.id)
                     [] OTHER -> list,
        recentlyCreatedIds |-> ids]

\* the callback runs for the oldest undelivered event
HabitOnEvent ==
  /\ habitEvents # <<>>
  /\ LET result == HabitOnEventResult(habits, recentlyCreatedIds, Head(habitEvents))
     IN /\ habitEvents' = Tail(habitEvents)
        /\ habits' = result.habits
        /\ recentlyCreatedIds' = result.recentlyCreatedIds
  /\ UNCHANGED <<completionVars, userId, userChanges, mounted, stats, habitItems, habitsLoading, habitsError,
                 habitCalls, habitOps, habitSettled, storeHabits, storeHabitNextId>>

\* another client or tab of the same user writes to the collection
OtherClientHabit ==
  /\ habitOps < MaxHabitOps
  /\ habitOps' = habitOps + 1
  /\ \/ \E name \in Names :
          LET rec == [id |-> storeHabitNextId, name |-> name, archived |-> FALSE,
                      user_id |-> userId]
          IN /\ storeHabits' = storeHabits \cup {rec}
             /\ storeHabitNextId' = storeHabitNextId + 1
             /\ habitEvents' = HabitEmit("created", rec)
     \/ \E old \in storeHabits, name \in Names :
          LET rec == [old EXCEPT !.name = name]
          IN /\ rec # old
             /\ storeHabits' = (storeHabits \ {old}) \cup {rec}
             /\ habitEvents' = HabitEmit("updated", rec)
             /\ UNCHANGED storeHabitNextId
     \/ \E old \in storeHabits :
          /\ storeHabits' = storeHabits \ {old}
          /\ habitEvents' = HabitEmit("deleted", old)
          /\ UNCHANGED storeHabitNextId
  /\ UNCHANGED <<completionVars, userId, userChanges, mounted, stats, habitItems, habits, habitsLoading, habitsError, recentlyCreatedIds,
                 habitCalls, habitSettled>>

\* ------------------------------------------------------ src/utils/date.ts
\* A Date is its time value in ms; an ISO string is written as the time value
\* it parses to (toISOString and new Date(string) are inverse to each other).
\* a normalisation to the nearest midnight UTC instead of the last one
normalizeDateNearest(date) ==
  LET shifted == date + MsPerDay \div 2 IN shifted - (shifted % MsPerDay)

\* normalizeDate: d.setUTCHours(0, 0, 0, 0)
normalizeDate(date) == date - (date % MsPerDay)

\* toISODate: normalizeDate(date).toISOString()
toISODate(date) == normalizeDate(date)

\* isSameDay: normalizeDate(date1).getTime() === normalizeDate(date2).getTime()
isSameDay(date1, date2) == normalizeDate(date1) = normalizeDate(date2)

\* ------------------------------------------- state updaters, useCompletions
NoCompletion == [id |-> 0, habit_id |-> 0, completed_date |-> 0, user_id |-> ""]

\* id.startsWith('temp-'): the local ids are the negative numbers
IsTemp(id) == id < 0

\* tempId of the n-th mutation: `temp-${Date.now()}-${Math.random()...}`
TempId(n) == 0 - n

\* completions.find(c => c.habit_id === habitId && isSameDay(c.completed_date, date))
CompletionsFind(list, habitId, date) ==
  LET Hit(i) == list[i].habit_id = habitId /\ isSameDay(list[i].completed_date, date)
  IN IF \E i \in DOMAIN list : Hit(i)
     THEN list[CHOOSE i \in DOMAIN list : Hit(i) /\ \A j \in DOMAIN list : Hit(j) => i <= j]
     ELSE NoCompletion

\* prev.filter(c => c.id !== id)
CompletionsWithout(prev, id) ==
  LET Keep(c) == c.id # id IN SelectSeq(prev, Keep)

\* an optimistic insert that is left out
CompletionsPrependDropped(prev, optimistic) == prev

\* setCompletions(prev => [optimistic, ...prev])
CompletionsPrepend(prev, optimistic) == <<optimistic>> \o prev

\* setCompletions(prev => prev.map(c => c.id === tempId ? real : c))
CompletionsReplaceTemp(prev, tempId, real) ==
  LET F(c) == IF c.id = tempId THEN real ELSE c IN MapSeq(prev, F)

\* a created handler that puts the pushed record in the place of the temp
\* entry of the same habit and date
CompletionsOnCreatedReplacesTemp(prev, record) ==
  IF \E i \in DOMAIN prev : prev[i].id = record.id THEN prev
  ELSE IF \E i \in DOMAIN prev :
            /\ IsTemp(prev[i].id)
            /\ prev[i].habit_id = record.habit_id
            /\ prev[i].completed_date = record.completed_date
       THEN [i \in DOMAIN prev |->
               IF /\ IsTemp(prev[i].id)
                  /\ prev[i].habit_id = record.habit_id
                  /\ prev[i].completed_date = record.completed_date
               THEN record ELSE prev[i]]
       ELSE <<record>> \o prev

\* a created handler without the check for a temp entry (the earlier
\* useCompletions.ts 63-64 inserts every created record)
CompletionsOnCreatedNoTempCheck(prev, record) ==
  IF \E i \in DOMAIN prev : prev[i].id = record.id THEN prev ELSE <<record>> \o prev

\* subscription, created: skip a known id, skip when a temp entry stands for
\* the same habit and date, else [record, ...prev]
CompletionsOnCreated(prev, record) ==
  IF \E i \in DOMAIN prev : prev[i].id = record.id THEN prev
  ELSE IF \E i \in DOMAIN prev :
            /\ IsTemp(prev[i].id)
            /\ prev[i].habit_id = record.habit_id
            /\ prev[i].completed_date = record.completed_date
       THEN prev
       ELSE <<record>> \o prev

\* ------------------------------------- remote store: 'habit_completions'
\* sort: 'completed_date', order: 'desc'; equal dates in creation order, newest first
RECURSIVE SortCompletionsDesc(_)
SortCompletionsDesc(S) ==
  IF S = {} THEN <<>>
  ELSE LET top == CHOOSE r \in S : \A q \in S :
                    \/ q.completed_date < r.completed_date
                    \/ q.completed_date = r.completed_date /\ q.id <= r.id
       IN <<top>> \o SortCompletionsDesc(S \ {top})

StoreCompletionList(store, user) == SortCompletionsDesc({r \in store : r.user_id = user})

CompletionEmit(action, record) ==
  IF userId # NoUser /\ record.user_id = userId
  THEN Append(completionEvents, [action |-> action, record |-> record])
  ELSE completionEvents

\* the store keeps one completion per habit and day
StoreCompletionTaken(habitId, date) ==
  \E r \in storeCompletions : r.habit_id = habitId /\ isSameDay(r.completed_date, date)

CompletionCall(n, op, user, id, tempId, habitId, date) ==
  [n |-> n, op |-> op, phase |-> "sent", user |-> user, id |-> id, tempId |-> tempId,
   habit_id |-> habitId, completed_date |-> date, data |-> <<>>, rec |-> NoCompletion,
   echoed |-> FALSE]

\* The remote store handles the create or delete of call c; a delete of an id
\* it does not hold is answered either way (idempotent delete, or not found).
StoreCompletionHandle(c) ==
  \/ /\ completionCalls' = completionCalls \cup {[c EXCEPT !.phase = "err"]}
     /\ UNCHANGED <<storeCompletions, storeCompletionNextId, completionEvents>>
  \/ /\ c.op = "create"
     /\ ~StoreCompletionTaken(c.habit_id, c.completed_date)
     /\ LET rec == [id |-> storeCompletionNextId, habit_id |-> c.habit_id,
                    completed_date |-> c.completed_date, user_id |-> c.user]
        IN /\ storeCompletions' = storeCompletions \cup {rec}
           /\ storeCompletionNextId' = storeCompletionNextId + 1
           /\ completionEvents' = CompletionEmit("created", rec)
           /\ completionCalls' = completionCalls \cup {[c EXCEPT !.phase = "ok", !.rec = rec]}
  \/ /\ c.op = "delete"
     /\ \E old \in storeCompletions :
          /\ old.id = c.id
          /\ storeCompletions' = storeCompletions \ {old}
          /\ completionEvents' = CompletionEmit("deleted", old)
     /\ completionCalls' = completionCalls \cup {[c EXCEPT !.phase = "ok"]}
     /\ UNCHANGED storeCompletionNextId
  \/ /\ c.op = "delete"
     /\ ~\E old \in storeCompletions : old.id = c.id
     /\ completionCalls' = completionCalls \cup {[c EXCEPT !.phase = "ok"]}
     /\ UNCHANGED <<storeCompletions, storeCompletionNextId, completionEvents>>

\* The remote store handles the list call of fetchCompletions
StoreCompletionListed(c, store) ==
  {[c EXCEPT !.phase = "list_err"],
   [c EXCEPT !.phase = "list_ok", !.data = StoreCompletionList(store, c.user)]}

\* --------------------------------------------------- hooks: useCompletions
\* The remote store holds one completion of the user from an earlier session.
SeedCompletions == {[id |-> 1, habit_id |-> 2, completed_date |-> 0, user_id |-> "u1"]}

\* Mounted for a signed-in user: empty list, loading true, fetchCompletions
\* has issued its list call, the subscription is open.
CompletionInit ==
  /\ completions = <<>>
  /\ completionsLoading = TRUE
  /\ completionsError = "null"
  /\ completionCalls \in
       {{call} : call \in StoreCompletionListed(
                   CompletionCall(0, "list", "u1", 0, 0, 0, 0), SeedCompletions)}
  /\ completionOps = 0
  /\ completionLog = <<>>
  /\ completionEvents = <<>>
  /\ storeCompletions = SeedCompletions
  /\ storeCompletionNextId = Cardinality(SeedCompletions) + 1

\* habits and days a caller can pass; the two dates lie on the same UTC day
HabitIdArgs == {1, 2}
DateArgs == {0, MsPerDay \div 2}

LogEntry(by, kind, habitId) ==
  [by |-> by, kind |-> kind, habit_id |-> habitId, outcome |-> "pending",
   echoed |-> FALSE]

Logged(c, outcome) ==
  IF c.n \in DOMAIN completionLog
  THEN [completionLog EXCEPT ![c.n].outcome = outcome, ![c.n].echoed = c.echoed]
  ELSE completionLog

\* toggleCompletion(habitId, date) up to its await: the delete branch when the
\* rendered list holds a completion of the habit on that day, else the create
\* branch
ToggleCompletionOf(habitId, date) ==
  /\ userId # NoUser
  /\ completionOps < MaxCompletionOps
  /\ completionOps' = completionOps + 1
  /\ LET existing == CompletionsFind(completions, habitId, date)
         dateKey == toISODate(date)
         n == completionOps + 1
         tempId == TempId(n)
         optimistic == [id |-> tempId, habit_id |-> habitId,
                        completed_date |-> dateKey, user_id |-> userId]
     IN IF existing # NoCompletion
        THEN /\ completions' = CompletionsWithout(completions, existing.id)
             /\ StoreCompletionHandle(
                  CompletionCall(n, "delete", userId, existing.id, 0, habitId, dateKey))
             /\ completionLog' = Append(completionLog, LogEntry("toggle", "delete", habitId))
        ELSE /\ completions' = CompletionsPrepend(completions, optimistic)
             /\ StoreCompletionHandle(
                  CompletionCall(n, "create", userId, 0, tempId, habitId, dateKey))
             /\ completionLog' = Append(completionLog, LogEntry("toggle", "create", habitId))
  /\ UNCHANGED <<completionsLoading, completionsError>>

\* toggleCompletion called with any habit and date
ToggleCompletion ==
  /\ \E habitId \in HabitIdArgs, date \in DateArgs : ToggleCompletionOf(habitId, date)
  /\ UNCHANGED habitVars

\* toggleCompletion, create branch after the await: the create resolved
ToggleCreateOk ==
  \E c \in completionCalls :
    /\ c.op = "create" /\ c.phase = "ok"
    /\ completions' = CompletionsReplaceTemp(completions, c.tempId, c.rec)
    /\ completionCalls' = completionCalls \ {c}
    /\ completionLog' = Logged(c, "resolved")
    /\ UNCHANGED <<habitVars, completionsLoading, completionsError, completionOps,
                   completionEvents, storeCompletions, storeCompletionNextId>>

\* toggleCompletion, delete branch after the await: the delete resolved
ToggleDeleteOk ==
  \E c \in completionCalls :
    /\ c.op = "delete" /\ c.phase = "ok"
    /\ completionCalls' = completionCalls \ {c}
    /\ completionLog' = Logged(c, "resolved")
    /\ UNCHANGED <<habitVars, completions, completionsLoading, completionsError,
                   completionOps, completionEvents, storeCompletions,
                   storeCompletionNextId>>

\* toggleCompletion, catch: `await fetchCompletions()` up to its list call
\* (setLoading(true), setError(null)); the throw waits for the list response
ToggleCatch ==
  \E c \in completionCalls :
    /\ c.op \in {"create", "delete"} /\ c.phase = "err"
    /\ completionsLoading' = TRUE
    /\ completionsError' = "null"
    /\ \E listed \in StoreCompletionListed(c, storeCompletions) :
         completionCalls' = (completionCalls \ {c}) \cup {listed}
    /\ UNCHANGED <<habitVars, completions, completionOps, completionLog,
                   completionEvents, storeCompletions, storeCompletionNextId>>

\* fetchCompletions after `await app.data.list(...)`: setCompletions(result.data),
\* finally; a toggleCompletion that awaited it then throws
FetchCompletionsOk ==
  \E c \in completionCalls :
    /\ c.phase = "list_ok"
    /\ completions' = c.data
    /\ completionsLoading' = FALSE
    /\ completionCalls' = completionCalls \ {c}
    /\ completionLog' = Logged(c, "rejected")
    /\ UNCHANGED <<habitVars, completionsError, completionOps, completionEvents,
                   storeCompletions, storeCompletionNextId>>

\* fetchCompletions, catch and finally: the list error is kept as a string;
\* a toggleCompletion that awaited it then throws
FetchCompletionsErr ==
  \E c \in completionCalls :
    /\ c.phase = "list_err"
    /\ completionsError' = "Failed to load completions"
    /\ completionsLoading' = FALSE
    /\ completionCalls' = completionCalls \ {c}
    /\ completionLog' = Logged(c, "rejected")
    /\ UNCHANGED <<habitVars, completions, completionOps, completionEvents,
                   storeCompletions, storeCompletionNextId>>

\* the subscription callback of useCompletions applied to one event: there is
\* no branch for `updated`
CompletionOnEventResult(list, event) ==
  CASE event.action = "created" -> CompletionsOnCreated(list, event.record)
    [] event.action = "deleted" -> CompletionsWithout(list, event.record.id)
    [] OTHER -> list

\* the callback runs for the oldest undelivered event; `echoed` notes on a
\* pending create that its own record was pushed
CompletionOnEvent ==
  /\ completionEvents # <<>>
  /\ LET event == Head(completionEvents)
         record == event.record
     IN /\ completionEvents' = Tail(completionEvents)
        /\ completions' = CompletionOnEventResult(completions, event)
        /\ completionCalls' =
             {IF event.action = "created" /\ c.op = "create" /\ c.phase = "ok"
                 /\ c.rec.id = record.id
              THEN [c EXCEPT !.echoed = TRUE] ELSE c : c \in completionCalls}
  /\ UNCHANGED <<habitVars, completionsLoading, completionsError, completionOps,
                 completionLog, storeCompletions, storeCompletionNextId>>

\* another client or tab of the same user toggles a completion
OtherClientCompletion ==
  /\ completionOps < MaxCompletionOps
  /\ completionOps' = completionOps + 1
  /\ \/ \E habitId \in HabitIdArgs, date \in DateArgs :
          LET rec == [id |-> storeCompletionNextId, habit_id |-> habitId,
                      completed_date |-> toISODate(date), user_id |-> userId]
          IN /\ ~StoreCompletionTaken(habitId, date)
             /\ storeCompletions' = storeCompletions \cup {rec}
             /\ storeCompletionNextId' = storeCompletionNextId + 1
             /\ completionEvents' = CompletionEmit("created", rec)
             /\ completionLog' = Append(completionLog,
                  [LogEntry("other", "create", habitId) EXCEPT !.outcome = "resolved"])
     \/ \E old \in storeCompletions :
          /\ storeCompletions' = storeCompletions \ {old}
          /\ completionEvents' = CompletionEmit("deleted", old)
          /\ completionLog' = Append(completionLog,
               [LogEntry("other", "delete", old.habit_id) EXCEPT !.outcome = "resolved"])
          /\ UNCHANGED storeCompletionNextId
  /\ UNCHANGED <<habitVars, completions, completionsLoading, completionsError,
                 completionCalls>>

\* ------------------------------------------------------------------- Spec
\* Both hooks are mounted together (App.tsx 41-50).  Spec runs the Habits
\* mirror and SpecCompletions the Completions mirror, each with the other
\* hook at rest after its initial load.
HabitsAtRest ==
  /\ userId = "u1"
  /\ userChanges = 0
  /\ stats = NoStats
  /\ habitItems = ItemsIdle
  /\ habits = StoreHabitList(SeedHabits, "u1")
  /\ habitsLoading = FALSE
  /\ habitsError = "null"
  /\ recentlyCreatedIds = {}
  /\ habitCalls = {}
  /\ habitOps = 0
  /\ habitSettled = NoneSettled
  /\ habitEvents = <<>>
  /\ storeHabits = SeedHabits
  /\ storeHabitNextId = Cardinality(SeedHabits) + 1

CompletionsAtRest ==
  /\ completions = StoreCompletionList(SeedCompletions, "u1")
  /\ completionsLoading = FALSE
  /\ completionsError = "null"
  /\ completionCalls = {}
  /\ completionOps = 0
  /\ completionLog = <<>>
  /\ completionEvents = <<>>
  /\ storeCompletions = SeedCompletions
  /\ storeCompletionNextId = Cardinality(SeedCompletions) + 1

Init == HabitInit /\ CompletionsAtRest /\ mounted = Hooks

HabitNext ==
  \/ CreateHabit \/ CreateHabitOk \/ CreateHabitErr
  \/ UpdateHabit \/ UpdateHabitErr
  \/ ArchiveHabit \/ ArchiveHabitErr
  \/ DeleteHabit \/ DeleteHabitErr
  \/ HabitMutationOk
  \/ FetchHabitsOk \/ FetchHabitsErr
  \/ HabitOnEvent
  \/ OtherClientHabit

Next == HabitNext

Spec == Init /\ [][Next]_vars

InitCompletions == HabitsAtRest /\ CompletionInit /\ mounted = Hooks

CompletionNext ==
  \/ ToggleCompletion
  \/ ToggleCreateOk \/ ToggleDeleteOk \/ ToggleCatch
  \/ FetchCompletionsOk \/ FetchCompletionsErr
  \/ CompletionOnEvent
  \/ OtherClientCompletion

SpecCompletions == InitCompletions /\ [][CompletionNext]_vars

\* ------------------------------------------------ the userId of the hooks
\* The effects of useHabits that depend on userId, run for another userId.
\* Cleanup of the subscription effect: unsubscribe(), the events not yet
\* delivered are not delivered.  fetchHabits: without a user setHabits([])
\* and setLoading(false); with one setLoading(true), setError(null) and a
\* list call for that user, the list staying as it is until the call
\* resolves.  Calls in flight for the earlier userId stay in flight.
UseHabitsEffects(user) ==
  /\ habitEvents' = <<>>
  /\ IF user = NoUser
     THEN /\ habits' = <<>>
          /\ habitsLoading' = FALSE
          /\ UNCHANGED <<habitsError, habitCalls>>
     ELSE /\ habitsLoading' = TRUE
          /\ habitsError' = "null"
          /\ \E phase \in {"ok", "err"} :
               habitCalls' = habitCalls \cup
                 {Advance(HabitCall(0, "list", user, 0, "", NoHabit, <<>>), phase,
                          IF phase = "ok" THEN StoreHabitList(storeHabits, user) ELSE <<>>,
                          NoHabit)}
          /\ UNCHANGED habits

\* The same effects of useCompletions
UseCompletionsEffects(user) ==
  /\ completionEvents' = <<>>
  /\ IF user = NoUser
     THEN /\ completions' = <<>>
          /\ completionsLoading' = FALSE
          /\ UNCHANGED <<completionsError, completionCalls>>
     ELSE /\ completionsLoading' = TRUE
          /\ completionsError' = "null"
          /\ \E listed \in StoreCompletionListed(
                              CompletionCall(0, "list", user, 0, 0, 0, 0),
                              storeCompletions) :
               completionCalls' = completionCalls \cup {listed}
          /\ UNCHANGED completions

\* The hooks are rendered with another userId (sign-out, sign-in, another user)
SetUser ==
  /\ userChanges < MaxUserChanges
  /\ userChanges' = userChanges + 1
  /\ \E user \in (Users \cup {NoUser}) \ {userId} :
       /\ userId' = user
       /\ IF "useHabits" \in mounted
          THEN UseHabitsEffects(user)
          ELSE UNCHANGED <<habits, habitsLoading, habitsError, habitCalls, habitEvents>>
       /\ IF "useCompletions" \in mounted
          THEN UseCompletionsEffects(user)
          ELSE UNCHANGED <<completions, completionsLoading, completionsError,
                           completionCalls, completionEvents>>
  /\ UNCHANGED <<mounted, stats, habitItems, recentlyCreatedIds, habitOps, habitSettled, storeHabits,
                 storeHabitNextId, completionOps, completionLog, storeCompletions,
                 storeCompletionNextId>>

SessionBudget == habitOps + completionOps < MaxSessionOps

\* a mutation without a user that returns normally
HabitMutationNoUserResolves ==
  /\ "useHabits" \in mounted
  /\ userId = NoUser
  /\ \E op \in {"create", "update", "archive", "unarchive", "delete"} :
       habitSettled' = [op |-> op, outcome |-> "resolved"]
  /\ UNCHANGED <<completionVars, userId, userChanges, mounted, stats, habitItems, habits, habitsLoading,
                 habitsError, recentlyCreatedIds, habitCalls, habitOps, habitEvents,
                 storeHabits, storeHabitNextId>>

\* createHabit, updateHabit, archiveHabit, unarchiveHabit, deleteHabit called
\* without a user: `if (!userId) throw new Error('User not authenticated')`
HabitMutationNoUser ==
  /\ "useHabits" \in mounted
  /\ userId = NoUser
  /\ \E op \in {"create", "update", "archive", "unarchive", "delete"} :
       habitSettled' = [op |-> op, outcome |-> "User not authenticated"]
  /\ UNCHANGED <<completionVars, userId, userChanges, mounted, stats, habitItems, habits, habitsLoading,
                 habitsError, recentlyCreatedIds, habitCalls, habitOps, habitEvents,
                 storeHabits, storeHabitNextId>>

\* toggleCompletion called without a user: the same throw, before anything else
ToggleCompletionNoUser ==
  /\ "useCompletions" \in mounted
  /\ userId = NoUser
  /\ completionOps < MaxCompletionOps
  /\ SessionBudget
  /\ completionOps' = completionOps + 1
  /\ \E habitId \in HabitIdArgs :
       completionLog' = Append(completionLog,
         [LogEntry("toggle", "none", habitId) EXCEPT !.outcome = "User not authenticated"])
  /\ UNCHANGED <<habitVars, completions, completionsLoading, completionsError,
                 completionCalls, completionEvents, storeCompletions,
                 storeCompletionNextId>>

SessionCreateHabit == "useHabits" \in mounted /\ SessionBudget /\ CreateHabit
SessionUpdateHabit == "useHabits" \in mounted /\ SessionBudget /\ UpdateHabit
SessionArchiveHabit == "useHabits" \in mounted /\ SessionBudget /\ ArchiveHabit
SessionDeleteHabit == "useHabits" \in mounted /\ SessionBudget /\ DeleteHabit
SessionToggleCompletion == "useCompletions" \in mounted /\ SessionBudget /\ ToggleCompletion

\* a hook that the component does not render: no state, no call, no event
HabitsUnmounted ==
  /\ userId = "u1"
  /\ userChanges = 0
  /\ stats = NoStats
  /\ habitItems = ItemsIdle
  /\ habits = <<>>
  /\ habitsLoading = TRUE
  /\ habitsError = "null"
  /\ recentlyCreatedIds = {}
  /\ habitCalls = {}
  /\ habitOps = 0
  /\ habitSettled = NoneSettled
  /\ habitEvents = <<>>
  /\ storeHabits = SeedHabits
  /\ storeHabitNextId = Cardinality(SeedHabits) + 1

CompletionsUnmounted ==
  /\ completions = <<>>
  /\ completionsLoading = TRUE
  /\ completionsError = "null"
  /\ completionCalls = {}
  /\ completionOps = 0
  /\ completionLog = <<>>
  /\ completionEvents = <<>>
  /\ storeCompletions = SeedCompletions
  /\ storeCompletionNextId = Cardinality(SeedCompletions) + 1

\* one of the two hooks, mounted for user u1
InitSession ==
  \/ HabitInit /\ CompletionsUnmounted /\ mounted = {"useHabits"}
  \/ HabitsUnmounted /\ CompletionInit /\ mounted = {"useCompletions"}

SessionNext ==
  \/ SetUser
  \/ HabitMutationNoUser \/ ToggleCompletionNoUser
  \/ SessionCreateHabit \/ SessionUpdateHabit \/ SessionArchiveHabit
  \/ SessionDeleteHabit \/ SessionToggleCompletion
  \/ CreateHabitOk \/ CreateHabitErr \/ UpdateHabitErr \/ ArchiveHabitErr
  \/ DeleteHabitErr \/ HabitMutationOk
  \/ FetchHabitsOk \/ FetchHabitsErr \/ HabitOnEvent
  \/ ToggleCreateOk \/ ToggleDeleteOk \/ ToggleCatch
  \/ FetchCompletionsOk \/ FetchCompletionsErr \/ CompletionOnEvent

SpecSession == InitSession /\ [][SessionNext]_vars

\* -------------------------------------- the subscription callbacks' events
\* One of the two hooks mounted for user u1, with its mutations, the writes
\* of other clients and every kind of event the subscription can deliver.
MirrorBudget == habitOps + completionOps < MaxMirrorOps

\* a writer outside this module updates a completion: the store pushes an
\* `updated` event (event.action is 'created', 'updated' or 'deleted')
OtherClientCompletionUpdate ==
  /\ "useCompletions" \in mounted
  /\ MirrorBudget
  /\ completionOps' = completionOps + 1
  /\ \E old \in storeCompletions, habitId \in HabitIdArgs :
       LET rec == [old EXCEPT !.habit_id = habitId]
       IN /\ rec # old
          /\ ~StoreCompletionTaken(habitId, old.completed_date)
          /\ storeCompletions' = (storeCompletions \ {old}) \cup {rec}
          /\ completionEvents' = CompletionEmit("updated", rec)
          /\ completionLog' = Append(completionLog,
               [LogEntry("other", "update", habitId) EXCEPT !.outcome = "resolved"])
  /\ UNCHANGED <<habitVars, completions, completionsLoading, completionsError,
                 completionCalls, storeCompletionNextId>>

MirrorCreateHabit == "useHabits" \in mounted /\ MirrorBudget /\ CreateHabit
MirrorUpdateHabit == "useHabits" \in mounted /\ MirrorBudget /\ UpdateHabit
MirrorArchiveHabit == "useHabits" \in mounted /\ MirrorBudget /\ ArchiveHabit
MirrorDeleteHabit == "useHabits" \in mounted /\ MirrorBudget /\ DeleteHabit
MirrorOtherClientHabit == "useHabits" \in mounted /\ MirrorBudget /\ OtherClientHabit
MirrorToggleCompletion == "useCompletions" \in mounted /\ MirrorBudget /\ ToggleCompletion
MirrorOtherClientCompletion ==
  "useCompletions" \in mounted /\ MirrorBudget /\ OtherClientCompletion

MirrorNext ==
  \/ MirrorCreateHabit \/ MirrorUpdateHabit \/ MirrorArchiveHabit \/ MirrorDeleteHabit
  \/ MirrorOtherClientHabit
  \/ CreateHabitOk \/ CreateHabitErr \/ UpdateHabitErr \/ ArchiveHabitErr
  \/ DeleteHabitErr \/ HabitMutationOk
  \/ FetchHabitsOk \/ FetchHabitsErr \/ HabitOnEvent
  \/ MirrorToggleCompletion \/ MirrorOtherClientCompletion \/ OtherClientCompletionUpdate
  \/ ToggleCreateOk \/ ToggleDeleteOk \/ ToggleCatch
  \/ FetchCompletionsOk \/ FetchCompletionsErr \/ CompletionOnEvent

SpecMirrors == InitSession /\ [][MirrorNext]_vars

\* ------------------------------------------- deleteHabit and its completions
\* Both hooks at rest after their loads (App.tsx 41-50); the user toggles
\* completions and deletes habits.  The remote store cascades the delete of
\* a habit to its completions and pushes a `deleted` event for each.
CascadeBudget == habitOps + completionOps < MaxCascadeOps

\* events with a `deleted` event appended for every record of S, by id
RECURSIVE CascadeEvents(_, _)
CascadeEvents(events, S) ==
  IF S = {} THEN events
  ELSE LET r == CHOOSE x \in S : \A y \in S : x.id <= y.id
       IN CascadeEvents(Append(events, [action |-> "deleted", record |-> r]), S \ {r})

\* handleDelete -> deleteHabit up to `await app.data.delete('habits', id)`;
\* nothing in it touches the completions of useCompletions
CascadeDeleteHabit ==
  /\ CascadeBudget
  /\ userId # NoUser
  /\ \E id \in HabitIdInputs :
       /\ habits' = HabitsWithout(habits, id)
       /\ HabitIssue("delete", id, "", NoHabit, habits)
       /\ LET gone == IF StoreHabitHas(id) /\ ~\E r \in storeHabits' : r.id = id
                      THEN {r \in storeCompletions : r.habit_id = id} ELSE {}
          IN /\ storeCompletions' = storeCompletions \ gone
             /\ completionEvents' =
                  CascadeEvents(completionEvents, {r \in gone : r.user_id = userId})
  /\ UNCHANGED <<userId, userChanges, mounted, stats, habitItems, habitsLoading, habitsError,
                 recentlyCreatedIds, habitSettled, completions, completionsLoading,
                 completionsError, completionCalls, completionOps, completionLog,
                 storeCompletionNextId>>

\* handleToggle is reached from the item of a habit in the list
CascadeToggleCompletion ==
  /\ CascadeBudget
  /\ ToggleCompletion
  /\ \A c \in completionCalls' \ completionCalls : c.habit_id \in Ids(habits)

InitCascade == HabitsAtRest /\ CompletionsAtRest /\ mounted = Hooks

CascadeNext ==
  \/ CascadeDeleteHabit \/ DeleteHabitErr \/ HabitMutationOk \/ HabitOnEvent
  \/ CascadeToggleCompletion
  \/ ToggleCreateOk \/ ToggleDeleteOk \/ ToggleCatch
  \/ FetchCompletionsOk \/ FetchCompletionsErr \/ CompletionOnEvent

SpecCascade == InitCascade /\ [][CascadeNext]_vars

\* ---------------------------------------------------- src/utils/streaks.ts
\* `new Date()` at the time of the render: a time of day after midnight UTC
Now == 10 * MsPerDay + MsPerDay \div 3

\* getToday: normalizeDate(new Date())
getToday == normalizeDate(Now)

\* date.setUTCDate(date.getUTCDate() + n): n days later, the time of day kept
AddDays(date, n) == ((date \div MsPerDay) + n) * MsPerDay + (date % MsPerDay)

\* getYesterday: setUTCDate(getUTCDate() - 1) on a copy of today
getYesterday == AddDays(getToday, 0 - 1)

\* getDaysDifference: Math.round((d2 - d1) / msPerDay), halves rounded up
getDaysDifference(date1, date2) ==
  LET d1 == normalizeDate(date1)
      d2 == normalizeDate(date2)
  IN ((d2 - d1) + MsPerDay \div 2) \div MsPerDay

\* isDateCompleted: completions.some(c => isSameDay(c.completed_date, date))
isDateCompleted(list, date) ==
  \E i \in DOMAIN list : isSameDay(list[i].completed_date, date)

\* Array.prototype.sort((a, b) => b - a): insertion keeps equal values in order
RECURSIVE InsertDesc(_, _)
InsertDesc(sorted, x) ==
  IF sorted = <<>> THEN <<x>>
  ELSE IF Head(sorted) >= x THEN <<Head(sorted)>> \o InsertDesc(Tail(sorted), x)
       ELSE <<x>> \o sorted

RECURSIVE SortDatesDesc(_)
SortDatesDesc(dates) ==
  IF dates = <<>> THEN <<>>
  ELSE InsertDesc(SortDatesDesc(SubSeq(dates, 1, Len(dates) - 1)), dates[Len(dates)])

\* Array.prototype.sort((a, b) => a - b)
RECURSIVE InsertAsc(_, _)
InsertAsc(sorted, x) ==
  IF sorted = <<>> THEN <<x>>
  ELSE IF Head(sorted) <= x THEN <<Head(sorted)>> \o InsertAsc(Tail(sorted), x)
       ELSE <<x>> \o sorted

RECURSIVE SortDatesAsc(_)
SortDatesAsc(dates) ==
  IF dates = <<>> THEN <<>>
  ELSE InsertAsc(SortDatesAsc(SubSeq(dates, 1, Len(dates) - 1)), dates[Len(dates)])

\* completions.map(c => normalizeDate(c.completed_date))
NormalizedDates(list) == [i \in DOMAIN list |-> normalizeDate(list[i].completed_date)]

\* calculateStreak 26-34: sorted newest first, then the filter that drops a
\* date equal to the one before it
UniqueDatesDesc(list) ==
  LET sortedDates == SortDatesDesc(NormalizedDates(list))
      kept == {i \in DOMAIN sortedDates :
                 i = 1 \/ ~isSameDay(sortedDates[i], sortedDates[i - 1])}
      Nth(k) == CHOOSE i \in kept : Cardinality({j \in kept : j < i}) = k - 1
  IN [k \in 1..Cardinality(kept) |-> sortedDates[Nth(k)]]

\* calculateStreak 51-60: the loop over uniqueDates with checkDate and streak
RECURSIVE StreakLoop(_, _, _)
StreakLoop(dates, checkDate, streak) ==
  IF dates = <<>> THEN streak
  ELSE IF isSameDay(Head(dates), checkDate)
       THEN StreakLoop(Tail(dates), AddDays(checkDate, 0 - 1), streak + 1)
       ELSE streak

\* a current streak counted from the newest completion, wherever it lies
calculateStreakFromLatest(list) ==
  IF Len(list) = 0 THEN 0
  ELSE LET uniqueDates == UniqueDatesDesc(list)
       IN StreakLoop(uniqueDates, uniqueDates[1], 0)

\* a current streak that counts every completed day up to today, gaps or not
calculateStreakAcrossGaps(list) ==
  Cardinality({normalizeDate(list[i].completed_date) : i \in DOMAIN list}
              \cap {AddDays(getToday, 0 - k) : k \in 0..Len(list)})

\* calculateStreak
calculateStreak(list) ==
  IF Len(list) = 0 THEN 0
  ELSE LET uniqueDates == UniqueDatesDesc(list)
           completedToday ==
             \E i \in DOMAIN uniqueDates : isSameDay(uniqueDates[i], getToday)
           completedYesterday ==
             \E i \in DOMAIN uniqueDates : isSameDay(uniqueDates[i], getYesterday)
       IN IF ~completedYesterday /\ ~completedToday THEN 0
          ELSE StreakLoop(uniqueDates,
                          IF completedToday THEN getToday ELSE getYesterday, 0)

\* calculateLongestStreak 94-97: getTime of the normalized dates, first
\* occurrences only (self.indexOf(value) === index), sorted oldest first
UniqueTimesAsc(list) ==
  LET times == NormalizedDates(list)
      kept == {i \in DOMAIN times : \A j \in 1..(i - 1) : times[j] # times[i]}
      Nth(k) == CHOOSE i \in kept : Cardinality({j \in kept : j < i}) = k - 1
  IN SortDatesAsc([k \in 1..Cardinality(kept) |-> times[Nth(k)]])

\* the dates of the list as they come, neither filtered nor sorted
TimesAsGiven(list) == NormalizedDates(list)

\* calculateLongestStreak 102-115: the scan from index i with currentStreak
\* and maxStreak; the result is [currentStreak, maxStreak]
RECURSIVE LongestScan(_, _, _, _)
LongestScan(sortedDates, i, currentStreak, maxStreak) ==
  IF i > Len(sortedDates)
  THEN [currentStreak |-> currentStreak, maxStreak |-> maxStreak]
  ELSE IF getDaysDifference(sortedDates[i - 1], sortedDates[i]) = 1
       THEN LongestScan(sortedDates, i + 1, currentStreak + 1,
                        IF maxStreak >= currentStreak + 1 THEN maxStreak
                        ELSE currentStreak + 1)
       ELSE LongestScan(sortedDates, i + 1, 1, maxStreak)

\* a longest streak that scans the dates in the order of the list
calculateLongestStreakUnsorted(list) ==
  IF Len(list) = 0 THEN 0
  ELSE LongestScan(TimesAsGiven(list), 2, 1, 1).maxStreak

\* a longest streak that returns the run it ends with
calculateLongestStreakLastRun(list) ==
  IF Len(list) = 0 THEN 0
  ELSE LongestScan(UniqueTimesAsc(list), 2, 1, 1).currentStreak

\* calculateLongestStreak
calculateLongestStreak(list) ==
  IF Len(list) = 0 THEN 0
  ELSE LongestScan(UniqueTimesAsc(list), 2, 1, 1).maxStreak

\* Math.floor((count / days) * 100)
FlooredPercent(count, days) == (100 * count) \div days

\* Math.round((count / days) * 100), halves rounded up
RoundedPercent(count, days) == (200 * count + days) \div (2 * days)

\* getWeeklyCompletionRate: the days today, today - 1, .., today - (days - 1)
getWeeklyCompletionRate(list, days) ==
  LET count == Cardinality({i \in 0..(days - 1) :
                              isDateCompleted(list, AddDays(getToday, 0 - i))})
  IN RoundedPercent(count, days)

\* a total that counts the records
getTotalCompletionsLength(list) == Len(list)

\* getTotalCompletions: new Set(normalized ISO strings).size
getTotalCompletions(list) ==
  Cardinality({toISODate(list[i].completed_date) : i \in DOMAIN list})

\* --------------------------------------- components/HabitInsights.tsx 22-37
\* completions.filter(c => c.habit_id === selectedHabit.id)
hCompletions(list, habitId) ==
  LET Of(c) == c.habit_id = habitId IN SelectSeq(list, Of)

\* completed_date values of the records: midnight UTC of the days around
\* today, and a time within today and within yesterday
StreakDates ==
  {AddDays(getToday, d) : d \in (0 - MaxDaysBack)..MaxDaysAhead}
  \cup {Now, AddDays(Now, 0 - 1)}

\* Scenario E of the specification: 28 days up to today, oldest first, all
\* completed but the day at index 10
ScenarioE ==
  LET days == SelectSeq([i \in 1..28 |-> i - 1], LAMBDA i : i # 10)
  IN [k \in DOMAIN days |->
        [id |-> k, habit_id |-> 1,
         completed_date |-> AddDays(getToday, days[k] - 27), user_id |-> "u1"]]

\* The list of useCompletions holds completions of habit 1 of any day
InitStreaks ==
  /\ HabitsAtRest
  /\ completions \in {<<>>, ScenarioE}
  /\ completionsLoading = FALSE
  /\ completionsError = "null"
  /\ completionCalls = {}
  /\ completionOps = 0
  /\ completionLog = <<>>
  /\ completionEvents = <<>>
  /\ storeCompletions = {}
  /\ storeCompletionNextId = 1
  /\ mounted = Hooks

\* a record enters the list (a toggle, another client, a list response)
AddCompletion ==
  /\ Len(completions) < MaxStreakLen
  /\ \E date \in StreakDates :
       completions' = Append(completions,
                             [id |-> Len(completions) + 1, habit_id |-> 1,
                              completed_date |-> date, user_id |-> userId])
  /\ stats' = NoStats
  /\ UNCHANGED <<userId, userChanges, mounted, habitItems, habits, habitsLoading, habitsError,
                 recentlyCreatedIds, habitCalls, habitOps, habitSettled, habitEvents,
                 storeHabits, storeHabitNextId, completionsLoading, completionsError,
                 completionCalls, completionOps, completionLog, completionEvents,
                 storeCompletions, storeCompletionNextId>>

\* HabitInsights renders: the stats useMemo for the selected habit, with the
\* window of getWeeklyCompletionRate as its parameter
RenderInsights ==
  /\ stats = NoStats
  /\ \E habit \in Ids(habits), days \in 1..MaxWindow :
       LET list == hCompletions(completions, habit)
       IN stats' = [days |-> days,
                    streak |-> calculateStreak(list),
                    longestStreak |-> calculateLongestStreak(list),
                    weeklyRate |-> getWeeklyCompletionRate(list, days),
                    totalDays |-> getTotalCompletions(list)]
  /\ UNCHANGED <<userId, userChanges, mounted, habitItems, habits, habitsLoading, habitsError,
                 recentlyCreatedIds, habitCalls, habitOps, habitSettled, habitEvents,
                 storeHabits, storeHabitNextId, completionVars>>

StreaksNext == AddCompletion \/ RenderInsights

SpecStreaks == InitStreaks /\ [][StreaksNext]_vars

\* ------------------------------------------- src/utils/date.ts, the calls
\* Time values the functions are called with, and values of `new Date()`:
\* the first and the last millisecond of a UTC day and two times in between,
\* on the days around 1970-01-01 (the days before it have negative values)
DateInputs ==
  {d * MsPerDay + t : d \in (0 - MaxDateDays)..MaxDateDays,
                      t \in {0, MsPerDay \div 3, MsPerDay \div 2, MsPerDay - 1}}

\* Day numbers of the first day of the UTC months around the epoch:
\* 1969-11-01, 1969-12-01, 1970-01-01, 1970-02-01, 1970-03-01
MonthStarts == {0 - 61, 0 - 31, 0, 31, 59}

\* the first day of the UTC month a time value lies in
MonthStartDay(date) ==
  LET day == date \div MsPerDay
  IN CHOOSE m \in MonthStarts :
       m <= day /\ \A m2 \in MonthStarts : m2 <= day => m2 <= m

\* Date.prototype.getUTCDate: the day of the month, 1..31
getUTCDate(date) == (date \div MsPerDay) - MonthStartDay(date) + 1

\* a setUTCDate that stays within the month of the date
setUTCDateClamped(date, dt) ==
  (MonthStartDay(date) + (IF dt < 1 THEN 1 ELSE dt) - 1) * MsPerDay
  + (date % MsPerDay)

\* Date.prototype.setUTCDate(dt): day dt of the month of the date, counted
\* on from its first day (dt <= 0 lies in the months before), time of day kept
setUTCDate(date, dt) ==
  (MonthStartDay(date) + dt - 1) * MsPerDay + (date % MsPerDay)

\* getLastNDays(n), with the value `now` that getToday reads from the clock:
\* for (i = n - 1; i >= 0; i--) days.push(today with setUTCDate(getUTCDate() - i))
getLastNDays(n, now) ==
  LET today == normalizeDate(now)
  IN [k \in 1..n |-> setUTCDate(today, getUTCDate(today) - (n - k))]

\* getLast7Days: the same loop from i = 6
getLast7Days(now) ==
  LET today == normalizeDate(now)
  IN [k \in 1..7 |-> setUTCDate(today, getUTCDate(today) - (7 - k))]

InitDates == HabitsAtRest /\ CompletionsAtRest /\ mounted = Hooks

\* a component compares two dates: normalizeDate, isSameDay and
\* getDaysDifference of the same arguments
CompareDates ==
  /\ \E date1 \in DateInputs, date2 \in DateInputs :
       stats' = [days |-> 0, call |-> "isSameDay",
                 date1 |-> date1, date2 |-> date2,
                 normalized |-> normalizeDate(date1),
                 renormalized |-> normalizeDate(normalizeDate(date1)),
                 sameDay |-> isSameDay(date1, date2),
                 difference |-> getDaysDifference(date1, date2)]
  /\ UNCHANGED <<userId, userChanges, mounted, habitItems, habits, habitsLoading, habitsError,
                 recentlyCreatedIds, habitCalls, habitOps, habitSettled, habitEvents,
                 storeHabits, storeHabitNextId, completionVars>>

\* a component renders the last n days (WeekGrid, HabitInsights, WeeklyReport)
RenderLastNDays ==
  /\ \E now \in DateInputs, n \in 0..MaxLastDays :
       stats' = [days |-> n, call |-> "getLastNDays", now |-> now,
                 result |-> getLastNDays(n, now),
                 last7 |-> getLast7Days(now)]
  /\ UNCHANGED <<userId, userChanges, mounted, habitItems, habits, habitsLoading, habitsError,
                 recentlyCreatedIds, habitCalls, habitOps, habitSettled, habitEvents,
                 storeHabits, storeHabitNextId, completionVars>>

DatesNext == CompareDates \/ RenderLastNDays

SpecDates == InitDates /\ [][DatesNext]_vars

\* ------------------------------------- useCompletions: getAllCompletions
\* Records the remote store can hold: MaxStoreRecords completions of user u1
\* on different days, and one of another user
ExportRecords ==
  {[id |-> k, habit_id |-> 1 + (k % 2), completed_date |-> k * MsPerDay,
    user_id |-> "u1"] : k \in 1..MaxStoreRecords}
  \cup {[id |-> MaxStoreRecords + 1, habit_id |-> 1, completed_date |-> MsPerDay,
          user_id |-> "u2"]}

\* pagination.totalPages of a list response: the pages of `limit` records
TotalPages(store, user) ==
  (Len(StoreCompletionList(store, user)) + PageLimit - 1) \div PageLimit

\* app.data.list('habit_completions', { filter: { user_id }, sort, order,
\* page, limit }): the records of that page, newest first
StoreCompletionPage(store, user, page) ==
  LET list == StoreCompletionList(store, user)
      first == (page - 1) * PageLimit + 1
      last == IF page * PageLimit < Len(list) THEN page * PageLimit ELSE Len(list)
  IN [data |-> SubSeq(list, first, last),
      pagination |-> [page |-> page, limit |-> PageLimit, total |-> Len(list),
                      totalPages |-> TotalPages(store, user)]]

\* a loop that asks for one page more than the store reports
LastPagePassed(page, totalPages) == page > totalPages

\* page >= result.pagination.totalPages
LastPageReached(page, totalPages) == page >= totalPages

\* the call of getAllCompletions held by StatsPage
ExportCall(state, user, page, requested, all) ==
  [days |-> 0, call |-> "getAllCompletions", state |-> state, user |-> user,
   page |-> page, requested |-> requested, all |-> all]

\* Both hooks after their load, for a signed-in user or for none; the store
\* holds any of the records.  Nothing writes to the store while
\* getAllCompletions runs.
InitExport ==
  /\ userId \in {"u1", NoUser}
  /\ userChanges = 0
  /\ stats = NoStats
  /\ habitItems = ItemsIdle
  /\ mounted = Hooks
  /\ habits = (IF userId = NoUser THEN <<>> ELSE StoreHabitList(SeedHabits, userId))
  /\ habitsLoading = FALSE
  /\ habitsError = "null"
  /\ recentlyCreatedIds = {}
  /\ habitCalls = {}
  /\ habitOps = 0
  /\ habitSettled = NoneSettled
  /\ habitEvents = <<>>
  /\ storeHabits = SeedHabits
  /\ storeHabitNextId = Cardinality(SeedHabits) + 1
  /\ storeCompletions \in SUBSET ExportRecords
  /\ storeCompletionNextId = MaxStoreRecords + 2
  /\ completions = (IF userId = NoUser THEN <<>>
                    ELSE StoreCompletionList(storeCompletions, userId))
  /\ completionsLoading = FALSE
  /\ completionsError = "null"
  /\ completionCalls = {}
  /\ completionOps = 0
  /\ completionLog = <<>>
  /\ completionEvents = <<>>

\* getAllCompletions up to its first await: `if (!userId) return []`, else
\* page = 1 and the first list call
GetAllCompletions ==
  /\ stats = NoStats
  /\ stats' = IF userId = NoUser
              THEN ExportCall("resolved", userId, 1, <<>>, <<>>)
              ELSE ExportCall("awaiting", userId, 1, <<1>>, <<>>)
  /\ UNCHANGED <<userId, userChanges, mounted, habitItems, habits, habitsLoading, habitsError,
                 recentlyCreatedIds, habitCalls, habitOps, habitSettled, habitEvents,
                 storeHabits, storeHabitNextId, completionVars>>

\* getAllCompletions after an await: all.push(...data), then break or
\* page++ and the next list call
GetAllCompletionsPage ==
  /\ "call" \in DOMAIN stats
  /\ stats.call = "getAllCompletions"
  /\ stats.state = "awaiting"
  /\ LET result == StoreCompletionPage(storeCompletions, stats.user, stats.page)
         all == stats.all \o result.data
     IN stats' = IF LastPageReached(stats.page, result.pagination.totalPages)
                 THEN ExportCall("resolved", stats.user, stats.page,
                                 stats.requested, all)
                 ELSE ExportCall("awaiting", stats.user, stats.page + 1,
                                 Append(stats.requested, stats.page + 1), all)
  /\ UNCHANGED <<userId, userChanges, mounted, habitItems, habits, habitsLoading, habitsError,
                 recentlyCreatedIds, habitCalls, habitOps, habitSettled, habitEvents,
                 storeHabits, storeHabitNextId, completionVars>>

\* a list call rejects: getAllCompletions has no catch and rejects with it
GetAllCompletionsErr ==
  /\ "call" \in DOMAIN stats
  /\ stats.call = "getAllCompletions"
  /\ stats.state = "awaiting"
  /\ stats' = [stats EXCEPT !.state = "rejected"]
  /\ UNCHANGED <<userId, userChanges, mounted, habitItems, habits, habitsLoading, habitsError,
                 recentlyCreatedIds, habitCalls, habitOps, habitSettled, habitEvents,
                 storeHabits, storeHabitNextId, completionVars>>

ExportNext == GetAllCompletions \/ GetAllCompletionsPage \/ GetAllCompletionsErr

SpecExport == InitExport /\ [][ExportNext]_vars

\* the event loop runs the continuation of every settled await
SpecExportLive == SpecExport /\ WF_vars(ExportNext)

\* ------------------------------------------------------- App.tsx 68-70
\* activeHabits: habits.filter(h => !h.archived)
activeHabits(list) == LET Active(h) == ~h.archived IN SelectSeq(list, Active)

\* archivedHabits: habits.filter(h => h.archived)
archivedHabits(list) == LET Archived(h) == h.archived IN SelectSeq(list, Archived)

\* ------------------------------------------- components/HabitItem.tsx 47-55
\* The list page renders one HabitItem per active habit, with
\* onToggle = () => handleToggle(habit.id), which awaits
\* toggleCompletion(habitId, today) (App.tsx 158-159, 430).  React renders
\* the item again after each click handler has run, so a click sees the
\* isToggling that the click before it has set.
ItemHabits ==
  SeedHabits \cup {[id |-> 2, name |-> "b", archived |-> FALSE, user_id |-> "u1"]}

\* a guard that lets every call through
NeverToggling(item) == FALSE

\* if (isToggling) return
Toggling(item) == item.isToggling

\* both hooks after their load, the store holding two active habits
InitItem ==
  /\ userId = "u1"
  /\ userChanges = 0
  /\ stats = NoStats
  /\ habitItems = ItemsIdle
  /\ mounted = Hooks
  /\ habits = StoreHabitList(ItemHabits, "u1")
  /\ habitsLoading = FALSE
  /\ habitsError = "null"
  /\ recentlyCreatedIds = {}
  /\ habitCalls = {}
  /\ habitOps = 0
  /\ habitSettled = NoneSettled
  /\ habitEvents = <<>>
  /\ storeHabits = ItemHabits
  /\ storeHabitNextId = Cardinality(ItemHabits) + 1
  /\ CompletionsAtRest

\* handleToggle of the item of habit h, the guard passed: setIsToggling(true)
\* and onToggle() up to the await of toggleCompletion
HandleToggle ==
  /\ \E h \in HabitItemIds \cap Ids(activeHabits(habits)) :
       /\ ~Toggling(habitItems[h])
       /\ habitItems' = [habitItems EXCEPT
                           ![h] = [isToggling |-> TRUE, awaiting |-> completionOps + 1,
                                   lastCall |-> "accepted"]]
       /\ ToggleCompletionOf(h, getToday)
  /\ UNCHANGED <<userId, userChanges, mounted, stats, habits, habitsLoading,
                 habitsError, recentlyCreatedIds, habitCalls, habitOps, habitSettled,
                 habitEvents, storeHabits, storeHabitNextId>>

\* handleToggle of the item of habit h while isToggling: return
HandleToggleGuarded ==
  /\ \E h \in HabitItemIds \cap Ids(activeHabits(habits)) :
       /\ Toggling(habitItems[h])
       /\ habitItems' = [habitItems EXCEPT ![h].lastCall = "returned"]
  /\ UNCHANGED <<userId, userChanges, mounted, stats, habits, habitsLoading,
                 habitsError, recentlyCreatedIds, habitCalls, habitOps, habitSettled,
                 habitEvents, storeHabits, storeHabitNextId, completionVars>>

\* handleToggle after the await, the promise of onToggle resolved or
\* rejected: finally { setIsToggling(false) }
HandleToggleFinally ==
  /\ \E h \in HabitItemIds :
       /\ habitItems[h].awaiting \in DOMAIN completionLog
       /\ completionLog[habitItems[h].awaiting].outcome \in {"resolved", "rejected"}
       /\ habitItems' = [habitItems EXCEPT ![h].isToggling = FALSE, ![h].awaiting = 0]
  /\ UNCHANGED <<userId, userChanges, mounted, stats, habits, habitsLoading,
                 habitsError, recentlyCreatedIds, habitCalls, habitOps, habitSettled,
                 habitEvents, storeHabits, storeHabitNextId, completionVars>>

ItemNext ==
  \/ HandleToggle \/ HandleToggleGuarded \/ HandleToggleFinally
  \/ ToggleCreateOk \/ ToggleDeleteOk \/ ToggleCatch
  \/ FetchCompletionsOk \/ FetchCompletionsErr \/ CompletionOnEvent

SpecItem == InitItem /\ [][ItemNext]_vars

\* ------------------------------------------------------------------ claims
\* a call of calls whose continuation runs in this step
Leaves(c, calls, calls2) == c \in calls /\ ~\E d \in calls2 : d.n = c.n
\* a call that is issued in this step
Enters(c, calls, calls2) == c \in calls2 /\ ~\E d \in calls : d.n = c.n

\* C1: the habit list never contains two entities with the same id
NoDuplicateHabitIds ==
  \A i, j \in DOMAIN habits : habits[i].id = habits[j].id => i = j

\* C3: once no remote call is in flight and every push event is delivered,
\* no habit that the remote store has deleted is in the habit list
HabitsQuiescent == habitCalls = {} /\ habitEvents = <<>>

NoDeletedHabitWhenQuiescent ==
  HabitsQuiescent => \A i \in DOMAIN habits : StoreHabitHas(habits[i].id)

\* C8: an updateHabit whose remote update fails puts back, for its id, the
\* record found when it was called (the first entry of that id in the list
\* before the optimistic patch), leaves every other habit as it is, and rejects
UpdateFailureReverts ==
  [][/\ \A c \in habitCalls' :
          Enters(c, habitCalls, habitCalls') /\ c.op = "update"
          => /\ c.prev.id = c.id
             /\ \E i \in DOMAIN habits :
                  /\ habits[i] = c.prev
                  /\ \A j \in 1..(i - 1) : habits[j].id # c.id
     /\ \A c \in habitCalls :
          Leaves(c, habitCalls, habitCalls') /\ c.op = "update" /\ c.phase = "err"
          => /\ DOMAIN habits' = DOMAIN habits
             /\ \A i \in DOMAIN habits :
                  habits'[i] = IF habits[i].id = c.id THEN c.prev ELSE habits[i]
             /\ habitSettled' = [op |-> "update", outcome |-> "rejected"]
    ]_vars

UpdateFailureWitness ==
  /\ habitSettled = [op |-> "update", outcome |-> "rejected"]
  /\ Len(habits) >= 2
  /\ habits = StoreHabitList(storeHabits, userId)

\* C9: a deleteHabit whose remote delete fails leaves the habit list equal,
\* members and order, to the list rendered when it was called, and rejects
DeleteFailureRestores ==
  [][/\ \A c \in habitCalls' :
          Enters(c, habitCalls, habitCalls') /\ c.op = "delete"
          => c.snapshot = habits
     /\ \A c \in habitCalls :
          Leaves(c, habitCalls, habitCalls') /\ c.op = "delete" /\ c.phase = "err"
          => /\ habits' = c.snapshot
             /\ habitSettled' = [op |-> "delete", outcome |-> "rejected"]
    ]_vars

DeleteFailureWitness ==
  /\ habitSettled = [op |-> "delete", outcome |-> "rejected"]
  /\ Len(habits) >= 2
  /\ habitCalls = {}

EchoBeforeResponseAlwaysOne ==
  [][\A c \in completionCalls :
       /\ Leaves(c, completionCalls, completionCalls')
       /\ c.op = "create" /\ c.phase = "ok" /\ c.echoed
       => Cardinality({i \in DOMAIN completions' : completions'[i].id = c.rec.id}) = 1
    ]_vars

\* createHabit inserts nothing before its remote create resolves
CreateHabitInsertsNothing ==
  [][\A c \in habitCalls' :
       Enters(c, habitCalls, habitCalls') /\ c.op = "create" => habits' = habits
    ]_vars

AtMostOnePerHabitDay ==
  \A i, j \in DOMAIN completions :
    /\ completions[i].habit_id = completions[j].habit_id
    /\ isSameDay(completions[i].completed_date, completions[j].completed_date)
    => i = j

\* C5: when the only mutations of a run are a toggleCompletion(h, D) that
\* creates and then a toggleCompletion(h, D) that deletes, both resolved, then
\* with all responses and events processed the list holds no entity of h
CompletionsQuiescent == completionCalls = {} /\ completionEvents = <<>>

RoundTripLeavesNothing ==
  \A habitId \in HabitIdArgs :
    /\ CompletionsQuiescent
    /\ Len(completionLog) = 2
    /\ \A n \in {1, 2} : /\ completionLog[n].by = "toggle"
                         /\ completionLog[n].habit_id = habitId
                         /\ completionLog[n].outcome = "resolved"
    /\ completionLog[1].kind = "create"
    /\ completionLog[2].kind = "delete"
    => \A i \in DOMAIN completions : completions[i].habit_id # habitId

\* C6: when the create of a toggleCompletion resolves, the list then holds
\* the server record, at the place of the temp entity, and no temp entity
CreateSuccessReplacesInPlace ==
  [][\A c \in completionCalls :
       Leaves(c, completionCalls, completionCalls') /\ c.op = "create" /\ c.phase = "ok"
       => /\ c.tempId \notin Ids(completions')
          /\ \E i \in DOMAIN completions' : completions'[i] = c.rec
          /\ \A i \in DOMAIN completions :
               completions[i].id = c.tempId => completions'[i] = c.rec
    ]_vars

ToggleFailureRollsBack ==
  [][\A c \in completionCalls :
       /\ Leaves(c, completionCalls, completionCalls')
       /\ c.phase \in {"list_ok", "list_err"}
       => /\ c.op = "create" => c.tempId \notin Ids(completions')
          /\ c.op = "delete" => c.id \in Ids(completions')
    ]_vars

\* C13: a fetchCompletions whose list call fails leaves the list empty, sets
\* the error string, clears loading and issues no list call again
LoadFailureLeavesEmpty ==
  [][\A c \in completionCalls \ completionCalls' :
       c.phase = "list_err"
       => /\ completions' = <<>>
          /\ completionsError' # "null"
          /\ completionsLoading' = FALSE
          /\ completionCalls' \subseteq completionCalls
    ]_vars

\* C13, the part that holds: the list is left as it was, the error string is
\* set, loading is cleared and no list call is issued again
LoadFailureKeepsList ==
  [][\A c \in completionCalls \ completionCalls' :
       c.phase = "list_err"
       => /\ completions' = completions
          /\ completionsError' # "null"
          /\ completionsLoading' = FALSE
          /\ completionCalls' \subseteq completionCalls
    ]_vars

\* C16: a `created` event whose record id is in recentlyCreatedIds leaves the
\* habit list as it is and takes the id out of recentlyCreatedIds; a
\* createHabit that resolves puts the id of its record into recentlyCreatedIds
MarkerSuppressesOneEvent ==
  [][/\ /\ habitEvents # <<>>
        /\ habitEvents' = Tail(habitEvents)
        /\ Head(habitEvents).action = "created"
        /\ Head(habitEvents).record.id \in recentlyCreatedIds
        => /\ habits' = habits
           /\ recentlyCreatedIds' = recentlyCreatedIds \ {Head(habitEvents).record.id}
     /\ \A c \in habitCalls \ habitCalls' :
          c.op = "create" /\ c.phase = "ok" => c.rec.id \in recentlyCreatedIds'
     /\ \A id \in recentlyCreatedIds' \ recentlyCreatedIds :
          \E c \in habitCalls \ habitCalls' :
            c.op = "create" /\ c.phase = "ok" /\ c.rec.id = id
    ]_vars

MarkerConsumedWitness ==
  /\ habitSettled = [op |-> "create", outcome |-> "resolved"]
  /\ recentlyCreatedIds = {}
  /\ habitEvents = <<>>
  /\ habitCalls = {}
  /\ \E i \in DOMAIN habits : habits[i].id = storeHabitNextId - 1
  /\ NoDuplicateHabitIds

\* C11: a createHabit, updateHabit, archiveHabit, unarchiveHabit or deleteHabit
\* whose remote call fails rejects; a toggleCompletion whose remote call fails
\* stays pending while it refetches and then rejects
MutationFailureRejects ==
  [][/\ \A c \in habitCalls \ habitCalls' :
          c.phase = "err" /\ c.op # "list"
          => habitSettled' = [op |-> c.op, outcome |-> "rejected"]
     /\ \A c \in completionCalls \ completionCalls' :
          c.op \in {"create", "delete"} /\ c.phase = "err"
          => /\ \E d \in completionCalls' :
                  d.n = c.n /\ d.phase \in {"list_ok", "list_err"}
             /\ completionLog' = completionLog
             /\ completionLog[c.n].outcome = "pending"
     /\ \A c \in completionCalls :
          Leaves(c, completionCalls, completionCalls') /\ c.op \in {"create", "delete"}
          => completionLog'[c.n].outcome =
               IF c.phase \in {"list_ok", "list_err"} THEN "rejected" ELSE "resolved"
    ]_vars

MutationFailureWitness ==
  /\ completionCalls = {}
  /\ \E n \in DOMAIN completionLog :
       /\ completionLog[n].by = "toggle"
       /\ completionLog[n].kind = "delete"
       /\ completionLog[n].outcome = "rejected"

\* C12: while userId is null no mutation call is issued, and a mutation that
\* is called throws 'User not authenticated' and leaves lists and store alone
NoUserMutationThrows ==
  [][userId = NoUser
     => /\ \A c \in habitCalls' \ habitCalls : c.op = "list"
        /\ \A c \in completionCalls' \ completionCalls :
             c.phase \in {"list_ok", "list_err"}
        /\ habitOps' = habitOps
        /\ storeHabits' = storeHabits /\ storeCompletions' = storeCompletions
        /\ habitSettled' # habitSettled /\ habitCalls' = habitCalls
           => /\ habitSettled'.outcome = "User not authenticated"
              /\ habits' = habits
        /\ completionOps' # completionOps
           => /\ Len(completionLog') = Len(completionLog) + 1
              /\ completionLog'[Len(completionLog')].outcome = "User not authenticated"
              /\ completions' = completions
              /\ completionCalls' = completionCalls
    ]_vars

NoUserMutationWitness ==
  /\ userId = NoUser
  /\ habitSettled.outcome = "User not authenticated"
  /\ habitSettled.op = "delete"

SignedOutIssuesNothing ==
  /\ [](userId = NoUser => habitEvents = <<>> /\ completionEvents = <<>>)
  /\ [][/\ userId = NoUser /\ userId' = NoUser
           => /\ habitCalls' \subseteq habitCalls
              /\ \A c \in completionCalls' \ completionCalls :
                   \E d \in completionCalls : d.n = c.n /\ d.phase = "err"
        /\ userId # NoUser /\ userId' = NoUser
           => /\ habitCalls' = habitCalls /\ completionCalls' = completionCalls
              /\ "useHabits" \in mounted => habits' = <<>> /\ ~habitsLoading'
              /\ "useCompletions" \in mounted
                 => completions' = <<>> /\ ~completionsLoading'
       ]_vars

\* C17: in both lists a `created` event delivered twice in a row leaves what
\* one delivery leaves, and a `created` event for an id already in the list
\* leaves the list unchanged
CreatedTwiceSameAsOnce ==
  /\ habitEvents # <<>> /\ Head(habitEvents).action = "created"
     => LET event == Head(habitEvents)
            once == HabitOnEventResult(habits, recentlyCreatedIds, event)
            twice == HabitOnEventResult(once.habits, once.recentlyCreatedIds, event)
        IN /\ twice.habits = once.habits
           /\ event.record.id \in Ids(habits) => once.habits = habits
  /\ completionEvents # <<>> /\ Head(completionEvents).action = "created"
     => LET event == Head(completionEvents)
            once == CompletionOnEventResult(completions, event)
            twice == CompletionOnEventResult(once, event)
        IN /\ twice = once
           /\ event.record.id \in Ids(completions) => once = completions

\* C17, the Completions list alone: the handler keeps no marker, and there
\* the two deliveries agree
CompletionCreatedTwiceSameAsOnce ==
  completionEvents # <<>> /\ Head(completionEvents).action = "created"
  => LET event == Head(completionEvents)
         once == CompletionOnEventResult(completions, event)
     IN /\ CompletionOnEventResult(once, event) = once
        /\ event.record.id \in Ids(completions) => once = completions

\* the entries of a list whose id is not id, in list order
Others(list, id) ==
  LET Keep(e) == e.id # id IN SelectSeq(list, Keep)

\* C18: an `updated` or `deleted` event whose record id is not in the list
\* leaves the list as it is; an `updated` event adds no id and no entry; a
\* `deleted` event for an id in the list takes out the entries of that id and
\* leaves the others as they are, in order
AbsentIdEventIsNoOp ==
  [][/\ habitEvents # <<>> /\ habitEvents' = Tail(habitEvents)
        => LET event == Head(habitEvents)
               id == event.record.id
           IN /\ event.action \in {"updated", "deleted"} /\ id \notin Ids(habits)
                 => habits' = habits
              /\ event.action = "updated"
                 => Len(habits') = Len(habits) /\ Ids(habits') = Ids(habits)
              /\ event.action = "deleted" /\ id \in Ids(habits)
                 => /\ id \notin Ids(habits')
                    /\ Len(habits') < Len(habits)
                    /\ habits' = Others(habits, id)
     /\ completionEvents # <<>> /\ completionEvents' = Tail(completionEvents)
        => LET event == Head(completionEvents)
               id == event.record.id
           IN /\ event.action \in {"updated", "deleted"} /\ id \notin Ids(completions)
                 => completions' = completions
              /\ event.action = "updated"
                 => /\ Len(completions') = Len(completions)
                    /\ Ids(completions') = Ids(completions)
              /\ event.action = "deleted" /\ id \in Ids(completions)
                 => /\ id \notin Ids(completions')
                    /\ Len(completions') < Len(completions)
                    /\ completions' = Others(completions, id)
    ]_vars

AbsentIdEventWitness ==
  /\ "useHabits" \in mounted
  /\ habits # <<>>
  /\ habitCalls = {}
  /\ habitEvents # <<>>
  /\ Head(habitEvents).action = "updated"
  /\ Head(habitEvents).record.id \notin Ids(habits)

\* list with every entry of the record's id replaced by the record, the
\* other entries and all positions as they are
ReplacedInPlace(list, list2, record) ==
  /\ Len(list2) = Len(list)
  /\ \A i \in DOMAIN list :
       list2[i] = IF list[i].id = record.id THEN record ELSE list[i]

\* C19: an `updated` event for an id in the list puts the event's record at
\* that entry's position, leaves the other entries and the length as they
\* are, in the Habits list and in the Completions list
UpdatedReplacesInPlace ==
  [][/\ /\ habitEvents # <<>> /\ habitEvents' = Tail(habitEvents)
        /\ Head(habitEvents).action = "updated"
        /\ Head(habitEvents).record.id \in Ids(habits)
        => ReplacedInPlace(habits, habits', Head(habitEvents).record)
     /\ /\ completionEvents # <<>> /\ completionEvents' = Tail(completionEvents)
        /\ Head(completionEvents).action = "updated"
        /\ Head(completionEvents).record.id \in Ids(completions)
        => ReplacedInPlace(completions, completions', Head(completionEvents).record)
    ]_vars

\* C19 as the code has it: the Habits list replaces in place; the
\* Completions callback has no `updated` branch and leaves its list as it is
UpdatedReplacesInHabitsOnly ==
  [][/\ /\ habitEvents # <<>> /\ habitEvents' = Tail(habitEvents)
        /\ Head(habitEvents).action = "updated"
        /\ Head(habitEvents).record.id \in Ids(habits)
        => ReplacedInPlace(habits, habits', Head(habitEvents).record)
     /\ /\ completionEvents # <<>> /\ completionEvents' = Tail(completionEvents)
        /\ Head(completionEvents).action = "updated"
        => completions' = completions
    ]_vars

UpdatedReplacesWitness ==
  /\ "useHabits" \in mounted
  /\ habitEvents # <<>>
  /\ Head(habitEvents).action = "updated"
  /\ Len(habits) >= 2
  /\ \E i \in DOMAIN habits :
       /\ habits[i].id = Head(habitEvents).record.id
       /\ habits[i] # Head(habitEvents).record

\* the entries of a list that carry a temp id, in list order
TempEntries(list) ==
  LET Temp(e) == IsTemp(e.id) IN SelectSeq(list, Temp)

\* C20: the delivery of a push event leaves every temp entry in the list and
\* as it is, and no pushed record carries a temp id; the temp entries change
\* only in a step of the hook itself: a toggleCompletion, the response of a
\* create, or the list response of fetchCompletions
EventsLeaveTempEntries ==
  [][/\ completionEvents # <<>> /\ completionEvents' = Tail(completionEvents)
        => /\ TempEntries(completions') = TempEntries(completions)
           /\ ~IsTemp(Head(completionEvents).record.id)
     /\ habitEvents # <<>> /\ habitEvents' = Tail(habitEvents)
        => /\ TempEntries(habits') = TempEntries(habits)
           /\ ~IsTemp(Head(habitEvents).record.id)
     /\ TempEntries(completions') # TempEntries(completions)
        => \/ \E c \in completionCalls' :
                /\ Enters(c, completionCalls, completionCalls')
                /\ c.op \in {"create", "delete"}
           \/ \E c \in completionCalls :
                /\ Leaves(c, completionCalls, completionCalls')
                /\ \/ c.op = "create" /\ c.phase = "ok"
                   \/ c.phase = "list_ok"
    ]_vars

EventsLeaveTempWitness ==
  /\ "useCompletions" \in mounted
  /\ \E c \in completionCalls :
       /\ c.op = "create" /\ c.phase = "ok" /\ c.echoed
       /\ c.tempId \in Ids(completions)
       /\ c.rec.id \notin Ids(completions)

\* C21: once every remote call has been answered and its continuation has
\* run, no temp entry is left in the Completions list
NoTempWhenSettled ==
  completionCalls = {} => TempEntries(completions) = <<>>

\* C22: once deleteHabit(h) has taken habit h out of the habit list (its
\* delete pending or committed), the Completions list holds no completion of h
NoOrphanedCompletions ==
  \A h \in HabitIdInputs :
    /\ h \notin Ids(habits)
    /\ \/ ~StoreHabitHas(h)
       \/ \E c \in habitCalls : c.op = "delete" /\ c.id = h
    => \A i \in DOMAIN completions : completions[i].habit_id # h

\* C23: while an updateHabit, archiveHabit or unarchiveHabit of habit h awaits
\* its response (here: as the only call in flight), the delivery of an
\* `updated` event for h leaves the entry of h with the field value the call
\* patched in
OptimisticWriteSurvivesPush ==
  [][/\ habitEvents # <<>> /\ habitEvents' = Tail(habitEvents)
     /\ Head(habitEvents).action = "updated"
     => \A c \in habitCalls :
          /\ habitCalls = {c}
          /\ c.op \in {"update", "archive", "unarchive"}
          /\ c.id = Head(habitEvents).record.id
          => \A i \in DOMAIN habits :
               /\ habits[i].id = c.id
               /\ i \in DOMAIN habits'
               => /\ c.op = "update" /\ habits[i].name = c.name
                     => habits'[i].name = c.name
                  /\ c.op = "archive" /\ habits[i].archived
                     => habits'[i].archived
                  /\ c.op = "unarchive" /\ ~habits[i].archived
                     => ~habits'[i].archived
    ]_vars

\* the UTC day of a time value, counted in days, and the days of a list
DayNumber(date) == (date - (date % MsPerDay)) \div MsPerDay
DaySet(list) == {DayNumber(list[i].completed_date) : i \in DOMAIN list}
TodayNumber == DayNumber(Now)

\* the list the rendered stats were computed from
RenderedList == hCompletions(completions, 1)

\* C24: calculateStreak is 0 whenever neither today nor yesterday is among
\* the days of the list; one completion at today - 5 gives current streak 0
\* and longest streak 1
NoRecentDayGivesZero ==
  stats # NoStats
  => /\ TodayNumber \notin DaySet(RenderedList) /\ (TodayNumber - 1) \notin DaySet(RenderedList)
        => stats.streak = 0
     /\ DaySet(RenderedList) = {TodayNumber - 5}
        => stats.streak = 0 /\ stats.longestStreak = 1

NoRecentDayWitness ==
  /\ stats # NoStats
  /\ DaySet(RenderedList) = {TodayNumber - 5}
  /\ Len(RenderedList) >= 1
  /\ stats.streak = 0
  /\ stats.longestStreak = 1

\* C25: calculateLongestStreak is never less than calculateStreak
LongestAtLeastCurrent ==
  stats # NoStats => stats.longestStreak >= stats.streak

LongestAtLeastCurrentWitness ==
  /\ stats # NoStats
  /\ stats.streak >= 1
  /\ stats.longestStreak > stats.streak

\* the count of the specification: days of S present in a row, walking back
\* from day start
RunBackFrom(S, start) ==
  CHOOSE n \in 0..Cardinality(S) :
    /\ \A k \in 0..(n - 1) : (start - k) \in S
    /\ (start - n) \notin S

ReferenceStreak(S) ==
  IF TodayNumber \notin S /\ (TodayNumber - 1) \notin S THEN 0
  ELSE RunBackFrom(S, IF TodayNumber \in S THEN TodayNumber ELSE TodayNumber - 1)

\* C26: for lists whose days lie before, on or after today, calculateStreak
\* is 0 if neither today nor yesterday is a day of the list, and else the
\* number of days present in a row walking back from today (if present, else
\* from yesterday); the days today-1, today-2 without today give 2
CurrentStreakIsReference ==
  stats # NoStats => stats.streak = ReferenceStreak(DaySet(RenderedList))

\* C26 for the lists that hold no day after today
CurrentStreakIsReferenceUpToToday ==
  /\ stats # NoStats
  /\ \A d \in DaySet(RenderedList) : d <= TodayNumber
  => stats.streak = ReferenceStreak(DaySet(RenderedList))

\* the length of the longest run of days of S in a row; 0 for no day
ReferenceLongest(S) ==
  IF S = {} THEN 0
  ELSE CHOOSE n \in 1..Cardinality(S) :
         /\ \E d \in S : \A k \in 0..(n - 1) : (d + k) \in S
         /\ ~\E d \in S : \A k \in 0..n : (d + k) \in S

\* C27: calculateLongestStreak is 0 for the empty list and else the length
\* of the longest run of consecutive days among the days of the list; the
\* days today, today-1, today-2 give 3 and Scenario E gives 17
LongestStreakIsLongestRun ==
  stats # NoStats
  => /\ stats.longestStreak = ReferenceLongest(DaySet(RenderedList))
     /\ RenderedList = <<>> <=> stats.longestStreak = 0
     /\ DaySet(RenderedList) = {TodayNumber, TodayNumber - 1, TodayNumber - 2}
        => stats.longestStreak = 3
     /\ RenderedList = ScenarioE => stats.longestStreak = 17

LongestStreakWitness ==
  /\ stats # NoStats
  /\ RenderedList = ScenarioE
  /\ stats.longestStreak = 17
  /\ DaySet(ScenarioE) = ((TodayNumber - 27)..TodayNumber) \ {TodayNumber - 17}

\* C28: for Scenario E (28 days up to today, all completed but the day at
\* index 10 from the oldest) calculateStreak returns 18
ScenarioECurrentStreak18 ==
  stats # NoStats /\ RenderedList = ScenarioE => stats.streak = 18

\* C28 as the code has it: the days at the indices 11..27 are the run that
\* ends today, and calculateStreak returns 17
ScenarioECurrentStreak17 ==
  stats # NoStats /\ RenderedList = ScenarioE
  => /\ stats.streak = 17
     /\ stats.streak = ReferenceStreak(DaySet(ScenarioE))

ScenarioEWitness ==
  /\ stats # NoStats
  /\ RenderedList = ScenarioE
  /\ Len(ScenarioE) = 27
  /\ TodayNumber \in DaySet(ScenarioE)
  /\ (TodayNumber - 17) \notin DaySet(ScenarioE)
  /\ stats.streak = 17

\* the days among the last w days, today included, that are days of S
DaysInWindow(S, w) == Cardinality({i \in 0..(w - 1) : (TodayNumber - i) \in S})

\* C29: getWeeklyCompletionRate(C, w) for w >= 1 is an integer in 0..100, an
\* integer nearest to 100 * k / w for the k days of the last w days (today
\* included) that are days of C; 3 of 7 days gives 43
RateIsRoundedShare ==
  stats # NoStats
  => LET w == stats.days
         k == DaysInWindow(DaySet(RenderedList), w)
         off == stats.weeklyRate * w - 100 * k
     IN /\ stats.weeklyRate \in 0..100
        /\ 2 * off <= w /\ 2 * (0 - off) <= w
        /\ w = 7 /\ k = 3 => stats.weeklyRate = 43

RateWitness ==
  /\ stats # NoStats
  /\ stats.days = 7
  /\ DaysInWindow(DaySet(RenderedList), 7) = 3
  /\ stats.weeklyRate = 43

\* the results of the four functions of streaks.ts for a list, the rate for
\* every window
AllResults(list) ==
  [streak |-> calculateStreak(list),
   longestStreak |-> calculateLongestStreak(list),
   weeklyRate |-> [w \in 1..MaxWindow |-> getWeeklyCompletionRate(list, w)],
   totalDays |-> getTotalCompletions(list)]

\* list with the entries at i and i + 1 exchanged
SwappedAt(list, i) ==
  [list EXCEPT ![i] = list[i + 1], ![i + 1] = list[i]]

\* C30: the four functions depend on the set of days only: a record added
\* for a day already in the list changes no result, exchanging two
\* neighbours of the list (and so any permutation) changes no result, and
\* getTotalCompletions is the number of distinct days
ResultsDependOnDaySet ==
  /\ [][/\ Len(completions') = Len(completions) + 1
        /\ DaySet(completions') = DaySet(completions)
        => AllResults(completions') = AllResults(completions)]_vars
  /\ [](stats = NoStats
        => /\ \A i \in 1..(Len(completions) - 1) :
                AllResults(SwappedAt(completions, i)) = AllResults(completions)
           /\ getTotalCompletions(completions) = Cardinality(DaySet(completions)))

DuplicateDayWitness ==
  /\ stats # NoStats
  /\ Len(RenderedList) = 3
  /\ Cardinality(DaySet(RenderedList)) = 2
  /\ \E i, j \in DOMAIN RenderedList :
       /\ DayNumber(RenderedList[i].completed_date) = DayNumber(RenderedList[j].completed_date)
       /\ RenderedList[i].completed_date # RenderedList[j].completed_date
  /\ stats.totalDays = 2
  /\ stats.streak = 2

\* the UTC calendar day of a time value, counted from 1970-01-01
UTCDay(date) == date \div MsPerDay

\* the result of the last call is that of isSameDay / of getLastNDays
Compared == "call" \in DOMAIN stats /\ stats.call = "isSameDay"
RenderedDays == "call" \in DOMAIN stats /\ stats.call = "getLastNDays"

\* C31: normalizeDate is idempotent and truncates to the UTC day (the result
\* is the midnight at or before the time value), and isSameDay of two time
\* values is true exactly when they lie on the same UTC calendar day, which
\* is exactly when getDaysDifference of them is 0
NormalizeTruncatesToUTCDay ==
  Compared =>
    /\ stats.renormalized = stats.normalized
    /\ stats.normalized = UTCDay(stats.date1) * MsPerDay
    /\ stats.normalized <= stats.date1
    /\ stats.date1 < stats.normalized + MsPerDay
    /\ stats.sameDay <=> (UTCDay(stats.date1) = UTCDay(stats.date2))
    /\ stats.sameDay <=> (stats.difference = 0)

\* two time values of one day before the epoch, the first in its last
\* millisecond, were compared
NormalizeWitness ==
  /\ Compared
  /\ stats.date1 < 0
  /\ stats.date1 % MsPerDay = MsPerDay - 1
  /\ stats.date2 # stats.date1
  /\ stats.sameDay
  /\ stats.difference = 0

\* C32: getLastNDays(n), n >= 0, returns n midnights, the k-th being that of
\* the day n - k days before today (oldest first, consecutive, the last one
\* today), also across the boundary of a month and year; a second call on the
\* same UTC day returns the same sequence, and getLast7Days is the case n = 7
LastNDaysAreConsecutive ==
  RenderedDays =>
    LET n == stats.days
        today == UTCDay(stats.now)
    IN /\ Len(stats.result) = n
       /\ \A k \in 1..n : stats.result[k] = (today - (n - k)) * MsPerDay
       /\ \A k \in 2..n : stats.result[k] = stats.result[k - 1] + MsPerDay
       /\ n >= 1 => /\ stats.result[n] = normalizeDate(stats.now)
                    /\ stats.result[1] = (today - (n - 1)) * MsPerDay
       /\ \A now2 \in DateInputs :
            UTCDay(now2) = today => getLastNDays(n, now2) = stats.result
       /\ stats.last7 = getLastNDays(7, stats.now)

\* seven days were rendered on 1970-01-02, late in the day: the window
\* starts in December 1969
LastNDaysWitness ==
  /\ RenderedDays
  /\ stats.days = 7
  /\ UTCDay(stats.now) = 1
  /\ stats.now % MsPerDay = MsPerDay - 1
  /\ stats.result[1] < 0
  /\ getUTCDate(stats.result[1]) = 27
  /\ getUTCDate(stats.result[7]) = 2

\* the call of getAllCompletions, and how far it is
Exporting == "call" \in DOMAIN stats /\ stats.call = "getAllCompletions"
ExportAwaiting == Exporting /\ stats.state = "awaiting"
ExportSettled == Exporting /\ stats.state \in {"resolved", "rejected"}

\* the pages getAllCompletions asks for when the store reports P pages: a
\* store that reports 0 pages (no record) has been asked for page 1
ExportPages(P) == IF P = 0 THEN 1 ELSE P

\* C33: with a store that does not change and reports totalPages = P,
\* getAllCompletions asks for the pages 1, 2, ..., P in this order and no
\* other, settles, and when it resolves returns the records of all pages
\* concatenated, which is every completion of the user in the store; with
\* userId null it resolves with an empty list and asks for nothing
AllPagesFetched ==
  /\ [](Exporting =>
         LET P == TotalPages(storeCompletions, stats.user)
             full == StoreCompletionList(storeCompletions, stats.user)
         IN /\ stats.requested = [k \in 1..Len(stats.requested) |-> k]
            /\ stats.user = NoUser =>
                 /\ stats.state = "resolved"
                 /\ stats.requested = <<>>
                 /\ stats.all = <<>>
            /\ stats.user # NoUser =>
                 /\ Len(stats.requested) <= ExportPages(P)
                 /\ stats.state # "rejected" =>
                      stats.requested[Len(stats.requested)] = stats.page
                 /\ stats.state = "resolved" =>
                      /\ Len(stats.requested) = ExportPages(P)
                      /\ stats.all = full
                      /\ {stats.all[i] : i \in DOMAIN stats.all}
                           = {r \in storeCompletions : r.user_id = stats.user})
  /\ (ExportAwaiting ~> ExportSettled)

\* three pages were fetched from a store that also holds a record of
\* another user, and the call resolved with the five records of the user
AllPagesWitness ==
  /\ Exporting
  /\ stats.state = "resolved"
  /\ stats.requested = <<1, 2, 3>>
  /\ Len(stats.all) = 5
  /\ \E r \in storeCompletions : r.user_id # stats.user

\* the entries of a list, as a set
Entries(list) == {list[i] : i \in DOMAIN list}

\* C34: an archiveHabit(h) or unarchiveHabit(h) that succeeds changes, when
\* it is called, only the archived flag of the entries of h (h stays, its
\* other fields and every other habit are as before) and nothing when it
\* resolves; it never changes the completion list; a habit of the list is in
\* the active view exactly when its flag is false; and an unarchiveHabit that
\* follows a successful archiveHabit (the only mutation so far, its echo
\* delivered) leaves h's entry equal to the original record
ArchiveChangesOnlyFlag ==
  /\ [][/\ \A c \in habitCalls' :
             Enters(c, habitCalls, habitCalls') /\ c.op \in {"archive", "unarchive"}
             /\ c.phase = "ok"
             => /\ DOMAIN habits' = DOMAIN habits
                /\ \A i \in DOMAIN habits :
                     habits'[i] = IF habits[i].id = c.id
                                  THEN [habits[i] EXCEPT !.archived = (c.op = "archive")]
                                  ELSE habits[i]
                /\ completions' = completions
                /\ \A i \in DOMAIN habits :
                     habits[i].id = c.id =>
                       (habits'[i] \in Entries(activeHabits(habits')))
                         <=> (c.op = "unarchive")
                /\ (/\ c.op = "unarchive"
                    /\ habitSettled = [op |-> "archive", outcome |-> "resolved"]
                    /\ habitOps = 1
                    /\ habitEvents = <<>>)
                   => Entries(habits') \subseteq SeedHabits
        /\ \A c \in habitCalls :
             Leaves(c, habitCalls, habitCalls') /\ c.op \in {"archive", "unarchive"}
             /\ c.phase = "ok"
             => /\ habits' = habits
                /\ completions' = completions
                /\ habitSettled' = [op |-> c.op, outcome |-> "resolved"]
       ]_vars
  /\ [](\A i \in DOMAIN habits :
          /\ (habits[i] \in Entries(activeHabits(habits))) <=> ~habits[i].archived
          /\ (habits[i] \in Entries(archivedHabits(habits))) <=> habits[i].archived)

\* habit 1 was archived, the call resolved and its echo was delivered, and
\* unarchiveHabit(1) has been called and has succeeded in the store: the
\* entry is the original record again
ArchiveRoundTripWitness ==
  /\ habitOps = 2
  /\ \E c \in habitCalls : c.op = "unarchive" /\ c.phase = "ok" /\ c.id = 1
  /\ \A c \in habitCalls : c.op = "unarchive"
  /\ Len(habits) = 1
  /\ Entries(habits) = SeedHabits
  /\ storeHabits = SeedHabits
  /\ habitSettled = [op |-> "archive", outcome |-> "resolved"]
  /\ Len(habitEvents) = 1
  /\ ~habitEvents[1].record.archived

\* C35: an archiveHabit or unarchiveHabit whose remote update fails leaves
\* the habit's archived flag as it was immediately before the call, whether
\* true or false, and every other field and habit unchanged.  Stated for a
\* call that is the only mutation of the run: the store still holds the seed
\* records and the list held them, or nothing, before the call, so the
\* entries of the list are seed records when the call has rejected
ArchiveFailureKeepsFlag ==
  (/\ habitOps = 1
   /\ habitSettled.op \in {"archive", "unarchive"}
   /\ habitSettled.outcome = "rejected"
   /\ habitCalls = {}
   /\ habitEvents = <<>>)
  => Entries(habits) \subseteq SeedHabits

\* what the catch blocks do: the flag of the entries of the id becomes the
\* opposite of the one asked for, nothing else changes, and the call rejects
ArchiveFailureSetsOpposite ==
  [][\A c \in habitCalls :
       Leaves(c, habitCalls, habitCalls') /\ c.op \in {"archive", "unarchive"}
       /\ c.phase = "err"
       => /\ DOMAIN habits' = DOMAIN habits
          /\ \A i \in DOMAIN habits :
               habits'[i] = IF habits[i].id = c.id
                            THEN [habits[i] EXCEPT !.archived = (c.op = "unarchive")]
                            ELSE habits[i]
          /\ completions' = completions
          /\ habitSettled' = [op |-> c.op, outcome |-> "rejected"]
    ]_vars

\* C36: every id that toggleCompletion passes to the remote delete is an id
\* the server assigned, never a local temp- id, also when the second toggle
\* of a habit and day is made while the create of the first is in flight
NoRemoteDeleteOfTempId ==
  [][\A c \in completionCalls' :
       Enters(c, completionCalls, completionCalls') /\ c.op = "delete"
       => ~IsTemp(c.id)
    ]_vars

\* the toggleCompletion calls made for habit h whose promise is pending
PendingToggles(h) ==
  {n \in DOMAIN completionLog :
     completionLog[n].habit_id = h /\ completionLog[n].outcome = "pending"}

\* C37: handleToggle of a HabitItem admits at most one toggle in flight: a
\* call made while isToggling is set returns without invoking onToggle (no
\* remote call, no change of the lists), onToggle is invoked only with the
\* guard clear, the guard stays set while the awaited toggle is pending and
\* is cleared once it has settled, resolved or rejected, after which the
\* item accepts a call again
OneToggleInFlightPerItem ==
  /\ [](\A h \in HabitItemIds :
          /\ Cardinality(PendingToggles(h)) <= 1
          /\ PendingToggles(h) # {} =>
               /\ habitItems[h].isToggling
               /\ habitItems[h].awaiting \in PendingToggles(h)
          /\ habitItems[h].isToggling <=> habitItems[h].awaiting # 0)
  /\ [][\A h \in HabitItemIds :
          /\ (habitItems[h].isToggling /\ habitItems'[h].isToggling
              /\ habitItems'[h] # habitItems[h])
             => /\ habitItems'[h].lastCall = "returned"
                /\ habitItems'[h].awaiting = habitItems[h].awaiting
                /\ UNCHANGED completionVars
          /\ (\E n \in DOMAIN completionLog' \ DOMAIN completionLog :
                completionLog'[n].habit_id = h)
             => /\ ~habitItems[h].isToggling
                /\ habitItems'[h].isToggling
                /\ habitItems'[h].awaiting = completionOps'
          /\ (habitItems[h].isToggling /\ ~habitItems'[h].isToggling)
             => /\ completionLog[habitItems[h].awaiting].outcome
                     \in {"resolved", "rejected"}
                /\ UNCHANGED completionVars
          /\ (habitItems[h].isToggling
              /\ completionLog[habitItems[h].awaiting].outcome # "pending")
             => ENABLED HandleToggleFinally
       ]_vars

\* the item of a habit has had one toggle rejected and one resolved, the
\* guard was cleared after each, and it has now accepted a third call, which
\* is in flight
ItemAcceptsAgainWitness ==
  \E h \in HabitItemIds :
    /\ habitItems[h].isToggling
    /\ habitItems[h].lastCall = "accepted"
    /\ Cardinality(PendingToggles(h)) = 1
    /\ \E n1, n2 \in DOMAIN completionLog :
         /\ completionLog[n1].habit_id = h /\ completionLog[n1].outcome = "rejected"
         /\ completionLog[n2].habit_id = h /\ completionLog[n2].outcome = "resolved"

\* C38: updateHabit(id, patch) for an id that is not in the habit list issues
\* no remote update (every update call issued carries an id of the rendered
\* list), resolves, and leaves the list and the store as they are
UpdateOfAbsentIdIsNoOp ==
  [][/\ \A c \in habitCalls' :
          Enters(c, habitCalls, habitCalls') /\ c.op = "update"
          => c.id \in Ids(habits)
     /\ (/\ habitSettled' # habitSettled
         /\ habitSettled' = [op |-> "update", outcome |-> "resolved"]
         /\ habitCalls' = habitCalls)
        => /\ habits' = habits
           /\ habitOps' = habitOps
           /\ habitEvents' = habitEvents
           /\ storeHabits' = storeHabits
           /\ UNCHANGED completionVars
    ]_vars

\* updateHabit(2, ...) was called while habit 2, created by this client, was
\* not yet in the list: it resolved and the create is still the only call
UpdateOfAbsentIdWitness ==
  /\ habitSettled = [op |-> "update", outcome |-> "resolved"]
  /\ habitOps = 1
  /\ \E c \in habitCalls : c.op = "create" /\ c.phase = "ok" /\ c.rec.id = 2
  /\ habits = StoreHabitList(SeedHabits, "u1")
  /\ 2 \notin Ids(habits)
  /\ StoreHabitHas(2)

\* C39: recentlyCreatedIds holds only markers that still await their echo:
\* an id is in the set only while the `created` event of that habit is
\* undelivered, so once the create response and the echo have both been
\* processed, in either order, the id is not in the set
MarkersAwaitEcho ==
  \A id \in recentlyCreatedIds :
    \E i \in DOMAIN habitEvents :
      habitEvents[i].action = "created" /\ habitEvents[i].record.id = id

\* what holds of the markers: each is the id of a habit this client created
\* and whose create response has been processed
MarkersAreCreatedIds ==
  \A id \in recentlyCreatedIds :
    /\ id \in HabitIdInputs
    /\ ~\E c \in habitCalls : c.op = "create" /\ c.rec.id = id

====
